---- MODULE Spec2Model ----
(***************************************************************************)
(* Claim tracker of nebulia37/book_reading_tracker_no_email.               *)
(*                                                                         *)
(* The server (src/server.js) keeps claim records in a remote table and a  *)
(* one-minute response cache; the browser client (src/dbService.ts,        *)
(* src/App.tsx) merges the generated catalog (src/data.ts) with the remote *)
(* listing and a localStorage copy.                                        *)
(***************************************************************************)
EXTENDS Integers, Sequences, FiniteSets, TLC

\* ------------------------------------------------------------------ bounds

\* Scrolls generated for the catalog's first sutra (600 in src/data.ts:33).
NumScrolls == 2
\* Scrolls of the catalog an earlier deployment generated (200 in part_006).
OldScrolls == 1
\* The clock stops at MaxTime ticks.
MaxTime == 1
\* POST /api/claim requests per run.
MaxPosts == 2
\* GET /api/claims requests per run.
MaxGets == 2
\* Ticks in one calendar day.
TicksPerDay == 1
\* plannedDays of the claims whose dates are computed
MaxPlannedDays == 40
\* Scripture requests per run.
MaxScriptureReqs == 3
\* Rows of an export, and characters of a free-text field of a row.
MaxRows == 2
MaxFieldLen == 2
\* Tokens of a scripture document.
MaxDocLen == 6
\* Pieces of a document whose text is extracted.
MaxTxtItems == 4

\* ------------------------------------------------------- program constants

\* const CACHE_DURATION = 1 * 60 * 1000: the cache window is shorter than a
\* day and is read on the same clock, so it ends with the tick it began in.
CACHE_DURATION == 1
\* plannedDays: plannedDays || 7
DefaultPlannedDays == 7

\* An absent (undefined) timing field, and an absent or empty name.
None == -1
NoName == ""
\* A phone is seen through its length and whether it is all digits;
\* a missing phone and the empty string both have length 0.
Phone(len, digits) == [len |-> len, digits |-> digits]
NoPhone == Phone(0, TRUE)

\* ------------------------------------------------------------- JS values
\* A JSON scalar is a number or a string of decimal digits; String() and
\* parseInt() convert between the two.

Num(n) == [kind |-> "number", n |-> n, s |-> <<>>]
Str(s) == [kind |-> "string", n |-> 0, s |-> s]

RECURSIVE ToDigits(_)
ToDigits(n) == IF n < 10 THEN <<n>> ELSE Append(ToDigits(n \div 10), n % 10)

RECURSIVE FromDigits(_)
FromDigits(s) ==
  IF Len(s) = 0 THEN 0
  ELSE 10 * FromDigits(SubSeq(s, 1, Len(s) - 1)) + s[Len(s)]

\* String(x)
String(x) == IF x.kind = "number" THEN ToDigits(x.n) ELSE x.s

\* parseInt(x) for a number or a string of digits
parseInt(x) == IF x.kind = "number" THEN x.n ELSE FromDigits(x.s)

\* `${part}${String(i).padStart(3, '0')}`
PadId(part, i) ==
  ToDigits(part) \o (IF i < 10 THEN <<0, 0>> ELSE IF i < 100 THEN <<0>> ELSE <<>>)
               \o ToDigits(i)

\* --------------------------------------------------------------- catalog

UNCLAIMED == "unclaimed"
CLAIMED == "claimed"
COMPLETED == "completed"
VolumeStatus == {UNCLAIMED, CLAIMED, COMPLETED}

BASE_URL == "https://w1.xianmijingzang.com/wap/tripitaka/id/43/subid/"

\* A freshly generated, unclaimed volume.
NewVolume(id, number, title, url) ==
  [id |-> id, volumeNumber |-> number, volumeTitle |-> title,
   status |-> UNCLAIMED, readingUrl |-> url,
   claimerName |-> NoName, claimerPhone |-> NoPhone, plannedDays |-> None,
   claimedAt |-> None, expectedCompletionDate |-> None]

createSutraVolumes(startId, subid, part, title, scrolls) ==
  [i \in 1..scrolls |->
     NewVolume(Num(startId + i), <<"part", part, " ", i>>, <<title, i>>,
               <<BASE_URL, subid>>)]

INITIAL_VOLUMES == createSutraVolumes(1000, 67, 1, "prajna-j", NumScrolls)

\* The catalog definition of the earlier deployment: string ids, another
\* label format, another title, fewer scrolls.
createSutraVolumesOld(subid, part, title, scrolls) ==
  [i \in 1..scrolls |->
     NewVolume(Str(PadId(part, i)), <<"part", part, "-", i>>, <<title, i>>,
               <<BASE_URL, subid>>)]

OLD_VOLUMES == createSutraVolumesOld(67, 1, "prajna-jing", OldScrolls)

CatalogIds == {INITIAL_VOLUMES[i].id.n : i \in 1..NumScrolls}


\* ------------------------------------------------------------------ state

VARIABLES
  now,            \* the wall clock, in ticks
  configured,     \* SUPABASE_URL and SUPABASE_ANON_KEY are set
  store,          \* rows of the remote table 'claims'
  sheetCache,     \* let sheetCache = { data, timestamp }
  posts,          \* POST /api/claim requests, by arrival
  gets,           \* GET /api/claims requests, by arrival
  notified,       \* POST requests that dispatched sendDingTalkNotification
  viewOut,        \* the last answer of GET /view or GET /view.csv
  localStorage,   \* localStorage[DB_KEY] of the browser
  view,           \* App: const [view, setView]
  volumes,        \* App: const [volumes, setVolumes]
  selectedVolume, \* App: const [selectedVolume, setSelectedVolume]
  isSubmitting,   \* App: const [isSubmitting, setIsSubmitting]
  submit,         \* handleSubmit's position
  gv,             \* dbService.getVolumes calls in flight, by caller
  lastList,       \* the last return of dbService.getVolumes
  localWrites,    \* POST requests followed by claimVolume's localStorage write
  claimDates,     \* claimVolume's claimedAt, plannedDays, expectedCompletionDate
  VIEW_ACCESS_CODE, \* const VIEW_ACCESS_CODE of the server process
  csvExport,      \* GET /view.csv: the claims read and the text sent
  scripture,      \* a scripture document and the last transform applied to it
  scriptureCache, \* let scriptureCache = new Map()
  scriptureReqs,  \* GET /api/scripture/:scroll[/txt|/pdf] requests, by arrival
  twoCalls        \* two successive getVolumes calls over one answer

vars == <<now, configured, store, sheetCache, posts, gets, notified, viewOut,
          localStorage, view, volumes, selectedVolume, isSubmitting, submit,
          gv, lastList, localWrites, claimDates, VIEW_ACCESS_CODE, csvExport,
          scripture, scriptureCache, scriptureReqs, twoCalls>>

serverVars == <<configured, store, sheetCache, posts, gets, notified, viewOut>>
clientVars == <<localStorage, view, volumes, selectedVolume, isSubmitting,
                submit, gv, lastList, localWrites, claimDates>>
\* The access code, and the state of the export, the scripture endpoints and
\* the repeated read.
restVars == <<VIEW_ACCESS_CODE, csvExport, scripture, scriptureCache,
              scriptureReqs, twoCalls>>

\* ------------------------------------------------ dbService.getVolumes

\* localStorage.getItem(DB_KEY): null, text JSON.parse rejects, or a list.
NoItem == [kind |-> "null", list |-> <<>>]
Corrupt == [kind |-> "not-json", list |-> <<>>]
\* JSON.stringify(volumes), as JSON.parse gives it back
Stored(vols) == [kind |-> "list", list |-> vols]

\* claims.find(c => String(c.volumeId) === String(volume.id))
FindClaim(claims, volume) ==
  {c \in claims : String(c.volumeId) = String(volume.id)}

\* volumes.map(volume => claim ? {...volume, status: CLAIMED, ...} : volume)
OverlayClaims(vols, claims) ==
  [i \in DOMAIN vols |->
     LET m == FindClaim(claims, vols[i]) IN
     IF m # {}
     THEN LET claim == CHOOSE c \in m : TRUE IN
          [vols[i] EXCEPT !.status = CLAIMED,
                          !.claimerName = claim.name,
                          !.claimerPhone = claim.phone,
                          !.plannedDays = parseInt(claim.plannedDays),
                          !.claimedAt = claim.claimedAt,
                          !.expectedCompletionDate = claim.expectedCompletionDate]
     ELSE vols[i]]

\* The comparison written as now > ...
ExpiredStrict(v, t) ==
  /\ v.status = CLAIMED
  /\ v.expectedCompletionDate # None
  /\ t > v.expectedCompletionDate

\* v.status === CLAIMED && v.expectedCompletionDate && now >= new Date(...)
Expired(v, t) ==
  /\ v.status = CLAIMED
  /\ v.expectedCompletionDate # None
  /\ t >= v.expectedCompletionDate

\* A map that also releases a volume found completed.
AutoCompleteThenRelease(vols, t) ==
  [i \in DOMAIN vols |->
     IF Expired(vols[i], t) THEN [vols[i] EXCEPT !.status = COMPLETED]
     ELSE IF vols[i].status = COMPLETED THEN [vols[i] EXCEPT !.status = UNCLAIMED]
     ELSE vols[i]]

\* volumes.map(v => CLAIMED with a deadline reached ? {...v, status: COMPLETED} : v)
AutoComplete(vols, t) ==
  [i \in DOMAIN vols |->
     IF Expired(vols[i], t) THEN [vols[i] EXCEPT !.status = COMPLETED]
     ELSE vols[i]]

\* A flag set for every claimed volume, whatever its deadline.
ModifiedByAnyClaim(vols, t) == \E i \in DOMAIN vols : vols[i].status = CLAIMED

\* let modified = false; ... modified = true for a volume completed here
Modified(vols, t) == \E i \in DOMAIN vols : Expired(vols[i], t)

\* An HTTP answer as fetch() sees it: status 0 is a rejected fetch; the body
\* is a JSON array ("array"), a JSON object {data: [...]} ("object") or an
\* error object ("error").
NetworkError == [status |-> 0, shape |-> "error", data |-> {}]
Reply(status, shape, data) == [status |-> status, shape |-> shape, data |-> data]

\* response.ok, and response.json() has a find method
Overlayable(resp) == resp.status = 200 /\ resp.shape = "array"

\* The body of getVolumes after the fetch: the list it returns and whether
\* it writes that list to localStorage[DB_KEY].
getVolumes(data, resp, t) ==
  IF data = Corrupt
  THEN [ret |-> INITIAL_VOLUMES, write |-> FALSE]
  ELSE LET base == IF data = NoItem THEN INITIAL_VOLUMES ELSE data.list
           merged == IF Overlayable(resp) THEN OverlayClaims(base, resp.data)
                     ELSE base
           final == AutoComplete(merged, t)
       IN [ret |-> final, write |-> Modified(merged, t)]


\* ------------------------------------------------- the remote table 'claims'

\* The row the table keeps for an inserted claim: id is the table's serial
\* key, expectedCompletionDate is filled in by the table's trigger
\* (claimedAt + plannedDays days).
Row(c, id) ==
  [id |-> id, volumeId |-> Num(c.vid), name |-> c.name, phone |-> c.phone,
   plannedDays |-> Num(c.plannedDays), claimedAt |-> c.claimedAt,
   expectedCompletionDate |-> c.claimedAt + c.plannedDays * TicksPerDay]

\* .select('id').eq('volumeId', volumeId).limit(1)
ExistingClaims(rows, vid) == {row \in rows : row.volumeId = Num(vid)}

\* A table without the constraint.
UniqueViolationNone(rows, vid) == FALSE

\* The table's uniqueness constraint on volumeId (error code 23505).
UniqueViolation(rows, vid) == \E row \in rows : row.volumeId = Num(vid)

\* --------------------------------------------------------- POST /api/claim

PostIds == 1..MaxPosts
GetIds == 1..MaxGets

IdlePost ==
  [pc |-> "idle", owner |-> "-", vid |-> 0, name |-> NoName, phone |-> NoPhone,
   plannedDays |-> 0, claimedAt |-> None, found |-> "-", ins |-> "-",
   code |-> 0, seen |-> {}, empty0 |-> FALSE, notify |-> "-", omitted |-> FALSE]

\* The next request slot: requests are numbered by arrival.
NextPost == CHOOSE r \in PostIds :
              /\ posts[r].pc = "idle"
              /\ \A q \in PostIds : q < r => posts[q].pc # "idle"
PostFree == \E r \in PostIds : posts[r].pc = "idle"

\* The test without the length bounds: /^[0-9]+$/
PhoneFormatDigitsOnly(phone) == phone.digits /\ phone.len >= 1

\* !/^[0-9]{8,11}$/.test(phone)
PhoneFormatOk(phone) == phone.digits /\ phone.len >= 8 /\ phone.len <= 11

\* The three 400 checks of the handler.
ValidBody(name, phone) == name # NoName /\ phone.len # 0 /\ PhoneFormatOk(phone)

\* getSupabaseClient() returns a client
HasClient == configured

\* The answer is sent; the handler's locals are gone.
Done(slot, code) ==
  [slot EXCEPT !.pc = "done", !.code = code, !.claimedAt = None]

\* The handler up to its first await: validation, newClaim, the client check,
\* and the existence lookup sent to the table. days = 0 is a body without
\* plannedDays.
PostBegin(r, owner, vid, name, phone, days) ==
  LET req == [IdlePost EXCEPT !.owner = owner, !.vid = vid, !.name = name,
                              !.phone = phone,
                              !.plannedDays = IF days = 0 THEN DefaultPlannedDays
                                              ELSE days,
                              !.omitted = (days = 0),
                              !.seen = {q \in PostIds : posts[q].pc = "done"},
                              !.empty0 = (ExistingClaims(store, vid) = {})]
  IN
  IF ~ValidBody(name, phone) THEN Done(req, 400)
  ELSE IF ~HasClient THEN Done([req EXCEPT !.claimedAt = now], 500)
  ELSE [req EXCEPT !.pc = "lookup", !.claimedAt = now]

\* The table answers the existence lookup, or fails, and the handler goes
\* on: if (existingError) 500; if (existingClaims.length > 0) 409; else the
\* insert is sent.
\* A handler that ignores existingError.
AfterLookupNoErrorCheck(slot, found) ==
  IF found = "some" THEN Done([slot EXCEPT !.found = found], 409)
  ELSE [slot EXCEPT !.found = found, !.pc = "inserting"]

\* A handler that answers 400 for a claimed volume.
AfterLookup400(slot, found) ==
  IF found = "error" THEN Done([slot EXCEPT !.found = found], 500)
  ELSE IF found = "some" THEN Done([slot EXCEPT !.found = found], 400)
  ELSE [slot EXCEPT !.found = found, !.pc = "inserting"]

AfterLookup(slot, found) ==
  IF found = "error" THEN Done([slot EXCEPT !.found = found], 500)
  ELSE IF found = "some" THEN Done([slot EXCEPT !.found = found], 409)
  ELSE [slot EXCEPT !.found = found, !.pc = "inserting"]

StoreLookup(r) ==
  /\ posts[r].pc = "lookup"
  /\ \E fails \in BOOLEAN :
       posts' = [posts EXCEPT ![r] =
                   AfterLookup(@, IF fails THEN "error"
                                  ELSE IF ExistingClaims(store, posts[r].vid) # {}
                                       THEN "some" ELSE "none")]
  /\ UNCHANGED <<now, configured, store, sheetCache, gets, notified, viewOut>>
  /\ UNCHANGED clientVars
  /\ UNCHANGED restVars

\* The table executes .insert([newClaim]): a uniqueness violation, another
\* failure, or the row is added.
StoreInsert(r) ==
  /\ posts[r].pc = "inserting"
  /\ \E fails \in BOOLEAN :
       IF fails
       THEN /\ posts' = [posts EXCEPT ![r].pc = "inserted", ![r].ins = "error"]
            /\ UNCHANGED store
       ELSE IF UniqueViolation(store, posts[r].vid)
       THEN /\ posts' = [posts EXCEPT ![r].pc = "inserted", ![r].ins = "23505"]
            /\ UNCHANGED store
       ELSE /\ posts' = [posts EXCEPT ![r].pc = "inserted", ![r].ins = "ok"]
            /\ store' = store \cup {Row(posts[r], r)}
  /\ UNCHANGED <<now, configured, sheetCache, gets, notified, viewOut>>
  /\ UNCHANGED clientVars
  /\ UNCHANGED restVars

\* A handler that does not look at the error code.
InsertErrorCode500(ins) == 500

\* What the handler answers for an insert error: 409 for code 23505, else 500.
InsertErrorCode(ins) == IF ins = "23505" THEN 409 ELSE 500

EmptyCache == [data |-> {}, held |-> FALSE, timestamp |-> 0]

\* What becomes of sendDingTalkNotification's call: it returns at once
\* without a webhook, its fetch rejects, DingTalk answers an errcode, the
\* call is still awaiting its fetch, or the message is sent.
NotifyOutcomes == {"no-webhook", "fetch-error", "errcode", "pending", "sent"}

\* A handler that awaits the notification and lets its failure reach the
\* catch block.
NotifyAnswerAwaited(outcome) ==
  IF outcome \in {"fetch-error", "errcode"} THEN 500 ELSE 200

\* The call is not awaited and the function catches its own errors:
\* res.json({ success: true, claim }) follows whatever becomes of it.
NotifyAnswer(outcome) == 200

\* The handler after the insert: error answers, or cache invalidation,
\* notification dispatch and the success answer.
PostFinish(r, outcome) ==
  /\ posts[r].pc = "inserted"
  /\ IF posts[r].ins # "ok"
     THEN /\ posts' = [posts EXCEPT ![r] = Done(@, InsertErrorCode(posts[r].ins))]
          /\ UNCHANGED <<sheetCache, notified>>
     ELSE /\ posts' = [posts EXCEPT ![r] =
                         Done([@ EXCEPT !.notify = outcome], NotifyAnswer(outcome))]
          /\ sheetCache' = EmptyCache
          /\ notified' = notified \cup {r}
  /\ UNCHANGED <<now, configured, store, gets, viewOut>>
  /\ UNCHANGED clientVars
  /\ UNCHANGED restVars

\* A pending notification call ends: its fetch is answered or rejects.
NotifySettle(r) ==
  /\ posts[r].notify = "pending"
  /\ \E outcome \in {"fetch-error", "errcode", "sent"} :
       posts' = [posts EXCEPT ![r].notify = outcome]
  /\ UNCHANGED <<now, configured, store, sheetCache, gets, notified, viewOut>>
  /\ UNCHANGED clientVars
  /\ UNCHANGED restVars

\* --------------------------------------------------------- GET /api/claims

NoReply == [status |-> -1, shape |-> "-", data |-> {}]

IdleGet ==
  [pc |-> "idle", owner |-> "-", fresh |-> FALSE, t0 |-> 0, snap |-> {},
   failed |-> FALSE, resp |-> NoReply, mustSee |-> {}]

NextGet == CHOOSE g \in GetIds :
             /\ gets[g].pc = "idle"
             /\ \A q \in GetIds : q < g => gets[q].pc # "idle"
GetFree == \E g \in GetIds : gets[g].pc = "idle"
\* A request whose answer the browser has read.
ClosedGet == [IdleGet EXCEPT !.pc = "closed"]

\* The cache check without !skipCache.
CacheHitAnyRequest(cache, fresh, t) ==
  cache.held /\ (t - cache.timestamp) < CACHE_DURATION

\* The cache check without the age test.
CacheHitAnyAge(cache, fresh, t) ==
  ~fresh /\ cache.held

\* !skipCache && sheetCache.data && (now - sheetCache.timestamp) < CACHE_DURATION
CacheHit(cache, fresh, t) ==
  ~fresh /\ cache.held /\ (t - cache.timestamp) < CACHE_DURATION

\* The answer is sent; the handler's locals are gone.
Answer(slot, resp) ==
  [slot EXCEPT !.pc = "done", !.resp = resp, !.t0 = 0, !.snap = {}]

\* The handler up to its await: the client check, the cache check, and the
\* query sent to the table.
GetBegin(owner, fresh) ==
  LET req == [IdleGet EXCEPT !.owner = owner, !.fresh = fresh, !.t0 = now,
                !.mustSee = {posts[r].vid : r \in {q \in PostIds :
                               posts[q].pc = "done" /\ posts[q].code = 200}}]
  IN
  IF ~HasClient THEN Answer(req, Reply(200, "object", {}))
  ELSE IF CacheHit(sheetCache, fresh, now)
  THEN Answer(req, Reply(200, "array", sheetCache.data))
  ELSE [req EXCEPT !.pc = "query"]

\* The table answers .select('*'), or fails.
StoreSelect(g) ==
  /\ gets[g].pc = "query"
  /\ \E fails \in BOOLEAN :
       gets' = [gets EXCEPT ![g].pc = "selected", ![g].failed = fails,
                            ![g].snap = IF fails THEN {} ELSE store]
  /\ UNCHANGED <<now, configured, store, sheetCache, posts, notified, viewOut>>
  /\ UNCHANGED clientVars
  /\ UNCHANGED restVars

\* sheetCache = { data, timestamp: now }
UpdatedCache(cache, data, t) == [data |-> data, held |-> TRUE, timestamp |-> t]

\* A catch block that serves the cache only within CACHE_DURATION.
FallbackWithinWindow(cache, t) ==
  IF cache.held /\ (t - cache.timestamp) < CACHE_DURATION
  THEN Reply(200, "array", cache.data)
  ELSE Reply(500, "error", {})

\* catch: if (sheetCache.data) return res.json(sheetCache.data); else 500
Fallback(cache, t) ==
  IF cache.held THEN Reply(200, "array", cache.data)
  ELSE Reply(500, "error", {})

\* The handler after the query: the cache update and the wrapped answer, or
\* the catch block's cached answer or 500.
GetFinish(g) ==
  /\ gets[g].pc = "selected"
  /\ IF gets[g].failed
     THEN /\ gets' = [gets EXCEPT ![g] = Answer(@, Fallback(sheetCache, now))]
          /\ UNCHANGED sheetCache
     ELSE /\ gets' = [gets EXCEPT ![g] =
                        Answer(@, Reply(200, "object", gets[g].snap))]
          /\ sheetCache' = UpdatedCache(sheetCache, gets[g].snap, gets[g].t0)
  /\ UNCHANGED <<now, configured, store, posts, notified, viewOut>>
  /\ UNCHANGED clientVars
  /\ UNCHANGED restVars

\* ------------------------------------------------- GET /view, GET /view.csv

\* c.expectedCompletionDate && now >= new Date(c.expectedCompletionDate)
DisplayStatus(c, t) ==
  IF c.expectedCompletionDate # None /\ t >= c.expectedCompletionDate
  THEN COMPLETED ELSE CLAIMED

\* req.query.code as Express parses it: undefined without the parameter, a
\* string, or an array when the parameter is repeated.
NoCode == [kind |-> "undefined", s |-> <<>>]
CodeText(t) == [kind |-> "string", s |-> <<t>>]
CodeList(l) == [kind |-> "array", s |-> l]

NoView == [status |-> 0, at |-> 0, rows |-> {}, read |-> FALSE, code |-> NoCode]

\* process.env.VIEW_ACCESS_CODE: unset, empty, or a text.
NoEnv == "unset"
\* process.env.VIEW_ACCESS_CODE || 'admin123'
AccessCodeOf(env) == IF env \in {NoEnv, ""} THEN "admin123" ELSE env

\* code != VIEW_ACCESS_CODE: the loose comparison turns an array of one
\* string into that string.
CodeDiffersLoose(code, accessCode) ==
  ~ \/ code = CodeText(accessCode)
    \/ code = CodeList(<<accessCode>>)

\* code !== VIEW_ACCESS_CODE
CodeDiffers(code, accessCode) == code # CodeText(accessCode)

\* Both handlers: the access-code check, one read of the table (an error
\* reads as no rows), and displayStatus for every row. The answer is kept
\* with the code the request carried.
View(csv, code, fails) ==
  /\ viewOut' =
       IF CodeDiffers(code, VIEW_ACCESS_CODE)
       THEN [status |-> 401, at |-> now, rows |-> {}, read |-> FALSE,
             code |-> code]
       ELSE LET claims == IF HasClient /\ ~fails THEN store ELSE {} IN
            [status |-> 200, at |-> now,
             rows |-> {[claim |-> c, displayStatus |-> DisplayStatus(c, now)] :
                         c \in claims},
             read |-> HasClient, code |-> code]
  /\ UNCHANGED <<now, configured, store, sheetCache, posts, gets, notified>>
  /\ UNCHANGED clientVars
  /\ UNCHANGED restVars

\* ------------------------------------------------- GET /view.csv: the text

\* A text is a sequence of characters; a column name counts as one character.
Quote == "\""
Comma == ","
LF == "\n"
CR == "\r"

\* A column value of a row: null, a number, or a text.
Null == [kind |-> "null", n |-> 0, s |-> <<>>]
Text(s) == [kind |-> "string", n |-> 0, s |-> s]

DigitChars == <<"0", "1", "2", "3", "4", "5", "6", "7", "8", "9">>

\* String(value) for a number or a text
CsvString(value) ==
  IF value.kind = "number"
  THEN [i \in 1..Len(ToDigits(value.n)) |-> DigitChars[ToDigits(value.n)[i] + 1]]
  ELSE value.s

\* c.field || '': null, 0 and '' all give ''
OrEmpty(value) ==
  IF \/ value.kind = "null"
     \/ (value.kind = "number" /\ value.n = 0)
     \/ (value.kind = "string" /\ value.s = <<>>)
  THEN Text(<<>>) ELSE value

Includes(raw, ch) == \E i \in 1..Len(raw) : raw[i] = ch

\* raw.replace(/"/g, '""')
RECURSIVE DoubleQuotes(_)
DoubleQuotes(raw) ==
  IF raw = <<>> THEN <<>>
  ELSE (IF Head(raw) = Quote THEN <<Quote, Quote>> ELSE <<Head(raw)>>)
       \o DoubleQuotes(Tail(raw))

\* An escapeValue that wraps in quotes without doubling the inner ones.
escapeValueNoDoubling(value) ==
  LET raw == IF value.kind = "null" THEN <<>> ELSE CsvString(value) IN
  IF Includes(raw, Quote) \/ Includes(raw, Comma) \/ Includes(raw, LF)
     \/ Includes(raw, CR)
  THEN <<Quote>> \o raw \o <<Quote>>
  ELSE raw

\* const escapeValue = (value) => { ... }
escapeValue(value) ==
  LET raw == IF value.kind = "null" THEN <<>> ELSE CsvString(value) IN
  IF Includes(raw, Quote) \/ Includes(raw, Comma) \/ Includes(raw, LF)
     \/ Includes(raw, CR)
  THEN <<Quote>> \o DoubleQuotes(raw) \o <<Quote>>
  ELSE raw

\* parts.join(sep)
RECURSIVE Join(_, _)
Join(parts, sep) ==
  IF parts = <<>> THEN <<>>
  ELSE IF Len(parts) = 1 THEN parts[1]
  ELSE parts[1] \o <<sep>> \o Join(Tail(parts), sep)

\* const headers = [...]
headers ==
  <<"volumeId", "part", "scroll", "volumeNumber", "volumeTitle", "name", "phone",
    "plannedDays", "claimedAt", "expectedCompletionDate", "status", "readingUrl",
    "remarks">>

\* const row = [c.volumeId || '', ..., c.displayStatus || '', ...]: the
\* status column shows displayStatus.
CsvRow(c) ==
  [i \in 1..Len(headers) |->
     OrEmpty(IF headers[i] = "status" THEN c.displayStatus ELSE c[headers[i]])]

\* lines = [headers.join(',')]; claims.forEach(c => lines.push(
\* row.map(escapeValue).join(','))); lines.join('\n')
CsvText(claims) ==
  Join(<<Join([i \in 1..Len(headers) |-> <<headers[i]>>], Comma)>>
       \o [k \in 1..Len(claims) |->
             Join([i \in 1..Len(headers) |-> escapeValue(CsvRow(claims[k])[i])],
                  Comma)],
       LF)

NoExport == [claims |-> <<>>, sent |-> FALSE, text |-> <<>>]

\* The handler sends the export of the claims it read.
ExportCsv ==
  /\ ~csvExport.sent
  /\ csvExport' = [csvExport EXCEPT !.sent = TRUE, !.text = CsvText(csvExport.claims)]
  /\ UNCHANGED <<now, localStorage, view, volumes, selectedVolume, isSubmitting,
                 submit, gv, lastList, localWrites, claimDates>>
  /\ UNCHANGED serverVars
  /\ UNCHANGED <<VIEW_ACCESS_CODE, scripture, scriptureCache, scriptureReqs,
                 twoCalls>>

\* ------------------------------------------- scripture documents (HTML)

\* A document is a sequence of tokens: tags, and pieces of text between
\* them. No piece of text holds a '<'.
Tags ==
  {"<i>", "</i>", "<span>", "</span>", "<span class=dou>", "<span class=dian>",
   "<span class=py-pair>", "<span class=py>", "<span class=hz>",
   "<p>", "</p>", "<br>", "<style>", "</style>", "<script>", "</script>"}
IsText(tok) == tok \notin Tags
\* <span[^>]*>
SpanOpen ==
  {"<span>", "<span class=dou>", "<span class=dian>", "<span class=py-pair>",
   "<span class=py>", "<span class=hz>"}
\* <span class=(?:["'])?(?:dou|dian)(?:["'])?>
PunctSpan == {"<span class=dou>", "<span class=dian>"}
\* The character  , and the characters trim() removes.
NBSP == "nbsp"
WhiteSpace == {" ", "\t", "\n", NBSP}

\* The length of the text [^<]* matches at the head of doc.
RECURSIVE TextRun(_)
TextRun(doc) ==
  IF doc = <<>> \/ ~IsText(Head(doc)) THEN 0 ELSE 1 + TextRun(Tail(doc))

Drop(doc, n) == SubSeq(doc, n + 1, Len(doc))
Take(doc, n) == SubSeq(doc, 1, n)
\* doc continues with the tokens of lit from position i on
At(doc, i, lit) ==
  /\ i + Len(lit) - 1 <= Len(doc)
  /\ \A j \in 1..Len(lit) : doc[i + j - 1] = lit[j]

\* /<span class=(dou|dian)>([^<]*)<\/span>(<\/span><\/i>)/ matches at the head
RepairMatch(doc) ==
  /\ doc # <<>> /\ Head(doc) \in PunctSpan
  /\ At(doc, 2 + TextRun(Tail(doc)), <<"</span>", "</span>", "</i>">>)

\* html.replace(/.../gi, '$2<i><span> </span><span>$1</span></i>')
RECURSIVE normalizeScriptureHtml(_)
normalizeScriptureHtml(html) ==
  IF html = <<>> THEN <<>>
  ELSE IF RepairMatch(html)
  THEN LET k == TextRun(Tail(html)) IN
       <<"</span>", "</i>", "<i>", "<span>", NBSP, "</span>", "<span>">>
       \o SubSeq(html, 2, 1 + k) \o <<"</span>", "</i>">>
       \o normalizeScriptureHtml(Drop(html, 4 + k))
  ELSE <<Head(html)>> \o normalizeScriptureHtml(Tail(html))

\* str.trim()
RECURSIVE TrimStart(_)
TrimStart(str) ==
  IF str # <<>> /\ Head(str) \in WhiteSpace THEN TrimStart(Tail(str)) ELSE str
RECURSIVE TrimEnd(_)
TrimEnd(str) ==
  IF str # <<>> /\ str[Len(str)] \in WhiteSpace
  THEN TrimEnd(Take(str, Len(str) - 1)) ELSE str
Trim(str) == TrimEnd(TrimStart(str))

\* /<i><span[^>]*>([^<]*)<\/span><span[^>]*>([^<]*)<\/span><\/i>/ matches at
\* the head, for the given sort of opening span
PairMatch(doc, opens) ==
  /\ Len(doc) >= 2 /\ doc[1] = "<i>" /\ doc[2] \in opens
  /\ LET k1 == TextRun(Drop(doc, 2)) IN
     /\ At(doc, 3 + k1, <<"</span>">>)
     /\ 4 + k1 <= Len(doc) /\ doc[4 + k1] \in opens
     /\ At(doc, 5 + k1 + TextRun(Drop(doc, 4 + k1)), <<"</span>", "</i>">>)
PairPy(doc) == SubSeq(doc, 3, 2 + TextRun(Drop(doc, 2)))
PairHz(doc) ==
  LET k1 == TextRun(Drop(doc, 2)) IN
  SubSeq(doc, 5 + k1, 4 + k1 + TextRun(Drop(doc, 4 + k1)))
PairLen(doc) == 6 + Len(PairPy(doc)) + Len(PairHz(doc))

\* cleanedHtml.replace(/.../gi, (_, py, hz) => `<span class="py-pair">...`)
RECURSIVE rubyHtml(_)
rubyHtml(cleanedHtml) ==
  IF cleanedHtml = <<>> THEN <<>>
  ELSE IF PairMatch(cleanedHtml, SpanOpen)
  THEN LET py == PairPy(cleanedHtml)
           pinyin == IF Trim(py) = <<>> THEN <<NBSP>> ELSE Trim(py) IN
       <<"<span class=py-pair>", "<span class=py>">> \o pinyin
       \o <<"</span>", "<span class=hz>">> \o PairHz(cleanedHtml)
       \o <<"</span>", "</span>">>
       \o rubyHtml(Drop(cleanedHtml, PairLen(cleanedHtml)))
  ELSE <<Head(cleanedHtml)>> \o rubyHtml(Tail(cleanedHtml))

\* The PDF path: the punctuation repair, then the pairing rewrite.
PdfHtml(scriptureHtml) == rubyHtml(normalizeScriptureHtml(scriptureHtml))

\* ----------------------------- GET /api/scripture/:scroll/txt: plainText

\* The position of the first closing tag at or after i, 0 when there is none.
RECURSIVE FirstAt(_, _, _)
FirstAt(doc, i, closing) ==
  IF i > Len(doc) THEN 0
  ELSE IF doc[i] = closing THEN i
  ELSE FirstAt(doc, i + 1, closing)

\* .replace(/<style[^>]*>[\s\S]*?<\/style>/gi, ''), and the same for script
RECURSIVE RemoveBlocks(_, _, _)
RemoveBlocks(doc, opening, closing) ==
  IF doc = <<>> THEN <<>>
  ELSE IF Head(doc) = opening /\ FirstAt(doc, 2, closing) # 0
  THEN RemoveBlocks(Drop(doc, FirstAt(doc, 2, closing)), opening, closing)
  ELSE <<Head(doc)>> \o RemoveBlocks(Tail(doc), opening, closing)

\* .replace(/<i><span>[^<]*<\/span><span>([^<]*)<\/span><\/i>/gi, '$1')
RECURSIVE KeepCharacters(_)
KeepCharacters(doc) ==
  IF doc = <<>> THEN <<>>
  ELSE IF PairMatch(doc, {"<span>"})
  THEN PairHz(doc) \o KeepCharacters(Drop(doc, PairLen(doc)))
  ELSE <<Head(doc)>> \o KeepCharacters(Tail(doc))

\* The six replacements of single tokens: </p> and <br> become line breaks,
\* every other tag is removed, the four entities are decoded.
ReplaceToken(tok) ==
  IF tok = "</p>" THEN <<"\n", "\n">>
  ELSE IF tok = "<br>" THEN <<"\n">>
  ELSE IF tok \in Tags THEN <<>>
  ELSE IF tok = "&nbsp;" THEN <<" ">>
  ELSE IF tok = "&lt;" THEN <<"<">>
  ELSE IF tok = "&gt;" THEN <<">">>
  ELSE IF tok = "&amp;" THEN <<"&">>
  ELSE <<tok>>
RECURSIVE ReplaceTokens(_)
ReplaceTokens(doc) ==
  IF doc = <<>> THEN <<>>
  ELSE ReplaceToken(Head(doc)) \o ReplaceTokens(Tail(doc))

\* The length of the run of characters of the set at the head of str.
RECURSIVE RunOf(_, _)
RunOf(str, chars) ==
  IF str = <<>> \/ Head(str) \notin chars THEN 0
  ELSE 1 + RunOf(Tail(str), chars)

\* .replace(/[ \t]+/g, ' ')
RECURSIVE CollapseBlanks(_)
CollapseBlanks(str) ==
  IF str = <<>> THEN <<>>
  ELSE IF Head(str) \in {" ", "\t"}
  THEN <<" ">> \o CollapseBlanks(Drop(str, RunOf(str, {" ", "\t"})))
  ELSE <<Head(str)>> \o CollapseBlanks(Tail(str))

\* .replace(/\n{3,}/g, '\n\n')
RECURSIVE CollapseLines(_)
CollapseLines(str) ==
  IF str = <<>> THEN <<>>
  ELSE IF RunOf(str, {"\n"}) >= 3
  THEN <<"\n", "\n">> \o CollapseLines(Drop(str, RunOf(str, {"\n"})))
  ELSE <<Head(str)>> \o CollapseLines(Tail(str))

\* The extraction without the rewrite of annotation pairs.
plainTextNoPairs(scriptureHtml) ==
  Trim(CollapseLines(CollapseBlanks(ReplaceTokens(
    RemoveBlocks(RemoveBlocks(scriptureHtml, "<style>", "</style>"),
                 "<script>", "</script>")))))

\* const plainText = scriptureHtml.replace(...)....trim()
plainText(scriptureHtml) ==
  Trim(CollapseLines(CollapseBlanks(ReplaceTokens(KeepCharacters(
    RemoveBlocks(RemoveBlocks(scriptureHtml, "<style>", "</style>"),
                 "<script>", "</script>"))))))

NoScripture == [html |-> <<>>, prev |-> <<>>, op |-> "-", passes |-> 0,
                text |-> <<>>]

\* The rewrite of the PDF path is applied to the document, at most twice.
PdfRewrite ==
  /\ scripture.op \in {"-", "pdf"} /\ scripture.passes < 2
  /\ scripture' = [scripture EXCEPT !.prev = scripture.html,
                                    !.html = PdfHtml(scripture.html),
                                    !.op = "pdf", !.passes = @ + 1]
  /\ UNCHANGED <<now, localStorage, view, volumes, selectedVolume, isSubmitting,
                 submit, gv, lastList, localWrites, claimDates>>
  /\ UNCHANGED serverVars
  /\ UNCHANGED <<VIEW_ACCESS_CODE, csvExport, scriptureCache, scriptureReqs,
                 twoCalls>>

\* setScriptureHtml(normalizeScriptureHtml(data.html)), at most twice.
NormalizeHtml ==
  /\ scripture.op \in {"-", "repair"} /\ scripture.passes < 2
  /\ scripture' = [scripture EXCEPT !.prev = scripture.html,
                                    !.html = normalizeScriptureHtml(scripture.html),
                                    !.op = "repair", !.passes = @ + 1]
  /\ UNCHANGED <<now, localStorage, view, volumes, selectedVolume, isSubmitting,
                 submit, gv, lastList, localWrites, claimDates>>
  /\ UNCHANGED serverVars
  /\ UNCHANGED <<VIEW_ACCESS_CODE, csvExport, scriptureCache, scriptureReqs,
                 twoCalls>>

\* The TXT endpoint extracts the text of the document, once or again.
ExtractText ==
  /\ scripture.op \in {"-", "txt"} /\ scripture.passes < 2
  /\ scripture' = [scripture EXCEPT !.prev = scripture.text,
                                    !.text = plainText(scripture.html),
                                    !.op = "txt", !.passes = @ + 1]
  /\ UNCHANGED <<now, localStorage, view, volumes, selectedVolume, isSubmitting,
                 submit, gv, lastList, localWrites, claimDates>>
  /\ UNCHANGED serverVars
  /\ UNCHANGED <<VIEW_ACCESS_CODE, csvExport, scriptureCache, scriptureReqs,
                 twoCalls>>

\* -------------------------------------- GET /api/scripture/:scroll[/txt|/pdf]

\* const SCRIPTURE_CACHE_DURATION = 60 * 60 * 1000: like the response cache's
\* window it is shorter than a day and ends with the tick it began in.
SCRIPTURE_CACHE_DURATION == 1
\* scroll < 1 || scroll > 200
LastScroll == 200

ScriptureIds == 1..MaxScriptureReqs
Endpoints == {"html", "txt", "pdf"}

NoEntry == [held |-> FALSE, html |-> <<>>, timestamp |-> 0]
\* new Map()
EmptyMap == [k \in {} |-> NoEntry]
\* What upstream sends for a scroll at time t: the text may change with time.
UpstreamHtml(scroll, t) == <<scroll, t>>

IdleScripture ==
  [pc |-> "idle", endpoint |-> "-", scroll |-> 0, fetched |-> FALSE,
   upstream |-> "-", code |-> 0, html |-> <<>>]

NextScripture == CHOOSE q \in ScriptureIds :
                   /\ scriptureReqs[q].pc = "idle"
                   /\ \A o \in ScriptureIds : o < q => scriptureReqs[o].pc # "idle"
ScriptureFree == \E q \in ScriptureIds : scriptureReqs[q].pc = "idle"

\* scriptureCache.get(cacheKey), cacheKey = `scripture_${scroll}`
CacheGet(cache, scroll) == IF scroll \in DOMAIN cache THEN cache[scroll] ELSE NoEntry
\* scriptureCache.set(cacheKey, { html, timestamp: Date.now() })
CacheSet(cache, scroll, html, t) ==
  [k \in DOMAIN cache \cup {scroll} |->
     IF k = scroll THEN [held |-> TRUE, html |-> html, timestamp |-> t]
     ELSE cache[k]]

\* The check without the age of the entry.
ScriptureCacheHitAnyAge(cached, t) == cached.held

\* cached && (Date.now() - cached.timestamp) < SCRIPTURE_CACHE_DURATION
ScriptureCacheHit(cached, t) ==
  cached.held /\ (t - cached.timestamp) < SCRIPTURE_CACHE_DURATION

\* The handler has the text: the HTML and TXT endpoints answer, the PDF
\* endpoint starts the browser.
WithHtml(slot, html) ==
  IF slot.endpoint = "pdf" THEN [slot EXCEPT !.pc = "rendering", !.html = html]
  ELSE [slot EXCEPT !.pc = "done", !.code = 200, !.html = html]

\* Each of the three handlers up to its await: the scroll check, the cache
\* check, and the request sent upstream.
ScriptureBegin(endpoint, scroll) ==
  /\ ScriptureFree
  /\ LET req == [IdleScripture EXCEPT !.endpoint = endpoint, !.scroll = scroll]
         cached == CacheGet(scriptureCache, scroll)
     IN scriptureReqs' = [scriptureReqs EXCEPT ![NextScripture] =
          IF scroll < 1 \/ scroll > LastScroll
          THEN [req EXCEPT !.pc = "done", !.code = 400]
          ELSE IF ScriptureCacheHit(cached, now) THEN WithHtml(req, cached.html)
          ELSE [req EXCEPT !.pc = "fetching", !.fetched = TRUE]]
  /\ UNCHANGED <<now, localStorage, view, volumes, selectedVolume, isSubmitting,
                 submit, gv, lastList, localWrites, claimDates>>
  /\ UNCHANGED serverVars
  /\ UNCHANGED <<VIEW_ACCESS_CODE, csvExport, scripture, scriptureCache, twoCalls>>

\* Upstream answers, answers with an error status, or the fetch or the
\* reading of the body rejects; on success the text is decoded and cached.
UpstreamOutcomes == {"ok", "status", "rejected", "body"}
UpstreamAnswer(q, outcome) ==
  /\ scriptureReqs[q].pc = "fetching"
  /\ IF outcome = "ok"
     THEN LET html == UpstreamHtml(scriptureReqs[q].scroll, now) IN
          /\ scriptureCache' =
               CacheSet(scriptureCache, scriptureReqs[q].scroll, html, now)
          /\ scriptureReqs' = [scriptureReqs EXCEPT ![q] =
                                 WithHtml([@ EXCEPT !.upstream = outcome], html)]
     ELSE /\ UNCHANGED scriptureCache
          /\ scriptureReqs' = [scriptureReqs EXCEPT ![q].pc = "done",
                                 ![q].upstream = outcome, ![q].code = 500]
  /\ UNCHANGED <<now, localStorage, view, volumes, selectedVolume, isSubmitting,
                 submit, gv, lastList, localWrites, claimDates>>
  /\ UNCHANGED serverVars
  /\ UNCHANGED <<VIEW_ACCESS_CODE, csvExport, scripture, twoCalls>>

\* puppeteer renders the PDF, or throws.
PdfRender(q, ok) ==
  /\ scriptureReqs[q].pc = "rendering"
  /\ scriptureReqs' = [scriptureReqs EXCEPT ![q].pc = "done",
                         ![q].code = IF ok THEN 200 ELSE 500]
  /\ UNCHANGED <<now, localStorage, view, volumes, selectedVolume, isSubmitting,
                 submit, gv, lastList, localWrites, claimDates>>
  /\ UNCHANGED serverVars
  /\ UNCHANGED <<VIEW_ACCESS_CODE, csvExport, scripture, scriptureCache, twoCalls>>

\* Time passes.
Tick ==
  /\ now < MaxTime
  /\ now' = now + 1
  /\ UNCHANGED serverVars
  /\ UNCHANGED clientVars
  /\ UNCHANGED restVars


\* ------------------------------------------------ requests of other users

GoodPhone == Phone(11, TRUE)
UnknownId == 1000 + NumScrolls + 1

\* Bodies other users post: every valid combination, and one body for each
\* way of failing validation.
ValidBodies ==
  {[vid |-> v, name |-> "li", phone |-> GoodPhone, days |-> d] :
     v \in CatalogIds \cup {UnknownId}, d \in {1}}
InvalidBodies ==
  {[vid |-> 1001, name |-> n, phone |-> ph, days |-> 1] :
     n \in {NoName}, ph \in {GoodPhone}}
  \cup {[vid |-> 1001, name |-> "li", phone |-> ph, days |-> 1] :
          ph \in {NoPhone, Phone(7, TRUE), Phone(12, TRUE), Phone(8, FALSE)}}

OtherPost(b) ==
  /\ PostFree
  /\ posts' = [posts EXCEPT ![NextPost] =
                 PostBegin(NextPost, "other", b.vid, b.name, b.phone, b.days)]
  /\ UNCHANGED <<now, configured, store, sheetCache, gets, notified, viewOut>>
  /\ UNCHANGED clientVars
  /\ UNCHANGED restVars

OtherGet(fresh) ==
  /\ GetFree
  /\ gets' = [gets EXCEPT ![NextGet] = GetBegin("other", fresh)]
  /\ UNCHANGED <<now, configured, store, sheetCache, posts, notified, viewOut>>
  /\ UNCHANGED clientVars
  /\ UNCHANGED restVars

\* ------------------------------------------------------------ the browser

Callers == {"load", "refresh", "claim"}

NoRequest == [volumeId |-> Num(0), name |-> NoName, phone |-> NoPhone, days |-> 0]
IdleGv == [pc |-> "idle", data |-> NoItem, get |-> 0, req |-> NoRequest, post |-> 0,
           after |-> {}]
IdleSubmit == [pc |-> "idle", post |-> 0, req |-> NoRequest]

\* The browser's successful POSTs whose claimVolume call has ended.
ClaimEnded ==
  {r \in PostIds : /\ posts[r].owner = "client" /\ posts[r].code = 200
                   /\ submit.post # r /\ gv["claim"].post # r}

\* getVolumes up to its await: localStorage is read and, unless JSON.parse
\* threw, the listing is fetched; the fetch may not reach the server.
StartGetVolumes(caller, req, post) ==
  \E reach \in BOOLEAN :
    IF localStorage # Corrupt /\ reach /\ GetFree
    THEN /\ gets' = [gets EXCEPT ![NextGet] = GetBegin(caller, FALSE)]
         /\ gv' = [gv EXCEPT ![caller] =
                     [pc |-> "fetching", data |-> localStorage, get |-> NextGet,
                      req |-> req, post |-> post, after |-> ClaimEnded]]
    ELSE /\ UNCHANGED gets
         /\ gv' = [gv EXCEPT ![caller] =
                     [pc |-> "fetching", data |-> localStorage, get |-> 0,
                      req |-> req, post |-> post, after |-> ClaimEnded]]

GvReady(c) ==
  /\ gv[c].pc = "fetching"
  /\ gv[c].get # 0 => gets[gv[c].get].pc = "done"
GvResp(c) == IF gv[c].get = 0 THEN NetworkError ELSE gets[gv[c].get].resp
GvResult(c) == getVolumes(gv[c].data, GvResp(c), now)
GvReturn(c) ==
  [at |-> now, data |-> gv[c].data, resp |-> GvResp(c),
   ret |-> GvResult(c).ret, after |-> gv[c].after]
\* if (modified) localStorage.setItem(DB_KEY, JSON.stringify(volumes))
GvStorage(c) ==
  IF GvResult(c).write THEN Stored(GvResult(c).ret) ELSE localStorage
\* The answer is read: the request is over.
GvClose(c) ==
  IF gv[c].get = 0 THEN gets ELSE [gets EXCEPT ![gv[c].get] = ClosedGet]

\* useEffect(() => { loadVolumes() }, [])
Mount ==
  /\ gv["load"].pc = "idle"
  /\ StartGetVolumes("load", NoRequest, 0)
  /\ UNCHANGED <<now, configured, store, sheetCache, posts, notified, viewOut>>
  /\ UNCHANGED <<localStorage, view, volumes, selectedVolume, isSubmitting,
                 submit, lastList, localWrites>>
  /\ UNCHANGED claimDates
  /\ UNCHANGED restVars

LoadDone ==
  /\ GvReady("load")
  /\ volumes' = GvResult("load").ret
  /\ localStorage' = GvStorage("load")
  /\ lastList' = GvReturn("load")
  /\ gv' = [gv EXCEPT !["load"] = [IdleGv EXCEPT !.pc = "done"]]
  /\ gets' = GvClose("load")
  /\ UNCHANGED <<now, view, selectedVolume, isSubmitting, submit, localWrites>>
  /\ UNCHANGED <<configured, store, sheetCache, posts, notified, viewOut>>
  /\ UNCHANGED claimDates
  /\ UNCHANGED restVars

handleClaimClick(i) ==
  /\ view = "home"
  /\ i \in DOMAIN volumes
  /\ volumes[i].status = UNCLAIMED
  /\ selectedVolume' = <<volumes[i]>>
  /\ view' = "claim"
  /\ UNCHANGED <<now, localStorage, volumes, isSubmitting, submit, gv, lastList,
                 localWrites>>
  /\ UNCHANGED serverVars
  /\ UNCHANGED claimDates
  /\ UNCHANGED restVars

\* onClick={() => setView('home')}
GoHome ==
  /\ view # "home"
  /\ view' = "home"
  /\ UNCHANGED <<now, localStorage, volumes, selectedVolume, isSubmitting,
                 submit, gv, lastList, localWrites>>
  /\ UNCHANGED serverVars
  /\ UNCHANGED claimDates
  /\ UNCHANGED restVars

\* handleSubmit up to its await of the POST: the phone length check,
\* setIsSubmitting(true), and the request, which may not reach the server.
handleSubmit(name, phone, days) ==
  /\ view = "claim"
  /\ selectedVolume # <<>>
  /\ ~isSubmitting
  /\ submit.pc = "idle"
  /\ gv["claim"].pc = "idle"
  /\ ~(phone.len < 8 \/ phone.len > 11)
  /\ isSubmitting' = TRUE
  /\ LET req == [volumeId |-> selectedVolume[1].id, name |-> name,
                 phone |-> phone, days |-> days] IN
     \E reach \in BOOLEAN :
       IF reach /\ PostFree
       THEN /\ posts' = [posts EXCEPT ![NextPost] =
                           PostBegin(NextPost, "client", parseInt(req.volumeId),
                                     name, phone, days)]
            /\ submit' = [pc |-> "posting", post |-> NextPost, req |-> req]
       ELSE /\ UNCHANGED posts
            /\ submit' = [pc |-> "posting", post |-> 0, req |-> req]
  /\ UNCHANGED <<now, configured, store, sheetCache, gets, notified, viewOut>>
  /\ UNCHANGED <<localStorage, view, volumes, selectedVolume, gv, lastList,
                 localWrites>>
  /\ UNCHANGED claimDates
  /\ UNCHANGED restVars

SubmitAnswered == submit.pc = "posting" /\ submit.post # 0 =>
                    posts[submit.post].pc = "done"
\* response.status, 0 when fetch threw
SubmitCode == IF submit.post = 0 THEN 0 ELSE posts[submit.post].code

\* !response.ok and not 409, or an exception: the catch and finally blocks.
SubmitFailed ==
  /\ submit.pc = "posting" /\ SubmitAnswered
  /\ SubmitCode \notin {200, 409}
  /\ isSubmitting' = FALSE
  /\ submit' = IdleSubmit
  /\ UNCHANGED <<now, localStorage, view, volumes, selectedVolume, gv, lastList,
                 localWrites>>
  /\ UNCHANGED serverVars
  /\ UNCHANGED claimDates
  /\ UNCHANGED restVars

\* response.status === 409: the listing is reloaded.
SubmitConflict ==
  /\ submit.pc = "posting" /\ SubmitAnswered
  /\ SubmitCode = 409
  /\ StartGetVolumes("refresh", NoRequest, 0)
  /\ submit' = [submit EXCEPT !.pc = "refreshing"]
  /\ UNCHANGED <<now, configured, store, sheetCache, posts, notified, viewOut>>
  /\ UNCHANGED <<localStorage, view, volumes, selectedVolume, isSubmitting,
                 lastList, localWrites>>
  /\ UNCHANGED claimDates
  /\ UNCHANGED restVars

\* setVolumes(refreshedVolumes); setView('home'); return; finally
RefreshDone ==
  /\ submit.pc = "refreshing"
  /\ GvReady("refresh")
  /\ volumes' = GvResult("refresh").ret
  /\ localStorage' = GvStorage("refresh")
  /\ lastList' = GvReturn("refresh")
  /\ gv' = [gv EXCEPT !["refresh"] = IdleGv]
  /\ view' = "home"
  /\ isSubmitting' = FALSE
  /\ submit' = IdleSubmit
  /\ gets' = GvClose("refresh")
  /\ UNCHANGED <<now, selectedVolume, localWrites>>
  /\ UNCHANGED <<configured, store, sheetCache, posts, notified, viewOut>>
  /\ UNCHANGED claimDates
  /\ UNCHANGED restVars

\* response.ok: claimVolume is called and not awaited, so `updated` is a
\* pending promise: it is truthy, updated.id is undefined and setVolumes
\* replaces nothing; the success view is entered.
SubmitOk ==
  /\ submit.pc = "posting" /\ SubmitAnswered
  /\ SubmitCode = 200
  /\ StartGetVolumes("claim", submit.req, submit.post)
  /\ view' = "success"
  /\ isSubmitting' = FALSE
  /\ submit' = IdleSubmit
  /\ UNCHANGED <<now, configured, store, sheetCache, posts, notified, viewOut>>
  /\ UNCHANGED <<localStorage, volumes, selectedVolume, lastList, localWrites>>
  /\ UNCHANGED claimDates
  /\ UNCHANGED restVars

\* volumes.findIndex(v => String(v.id) === String(request.volumeId))
FindIndex(vols, volumeId) ==
  LET m == {i \in DOMAIN vols : String(vols[i].id) = String(volumeId)} IN
  IF m = {} THEN 0 ELSE CHOOSE i \in m : \A j \in m : i <= j

\* claimedAt = new Date(); expectedCompletionDate.setDate(getDate() +
\* (request.plannedDays || 7)); updatedVolume = {...}
UpdatedVolume(v, req, t) ==
  [v EXCEPT !.status = CLAIMED,
            !.claimerName = req.name,
            !.claimerPhone = req.phone,
            !.plannedDays = req.days,
            !.claimedAt = t,
            !.expectedCompletionDate =
               t + (IF req.days = 0 THEN DefaultPlannedDays ELSE req.days)
                   * TicksPerDay]

\* claimVolume after its await of getVolumes: null for an unknown id, an
\* exception for a volume that is not unclaimed, else the local write.
ClaimVolumeDone ==
  /\ GvReady("claim")
  /\ lastList' = GvReturn("claim")
  /\ gv' = [gv EXCEPT !["claim"] = IdleGv]
  /\ LET vols == GvResult("claim").ret
         index == FindIndex(vols, gv["claim"].req.volumeId)
     IN IF index # 0 /\ vols[index].status = UNCLAIMED
        THEN /\ localStorage' =
                  Stored([vols EXCEPT ![index] =
                            UpdatedVolume(vols[index], gv["claim"].req, now)])
             /\ localWrites' = localWrites \cup {gv["claim"].post}
        ELSE /\ localStorage' = GvStorage("claim")
             /\ UNCHANGED localWrites
  /\ gets' = GvClose("claim")
  /\ UNCHANGED <<now, view, volumes, selectedVolume, isSubmitting, submit>>
  /\ UNCHANGED <<configured, store, sheetCache, posts, notified, viewOut>>
  /\ UNCHANGED claimDates
  /\ UNCHANGED restVars

\* --------------------------------------------- getVolumes, called twice

NoCalls == [resp |-> NoReply, n |-> 0, first |-> <<>>, second |-> <<>>,
            stored |-> NoItem]

\* getVolumes runs to its end over the answer twoCalls.resp: it returns a
\* list and may write it; the first call's list and the storage it leaves
\* are kept for comparison.
GetVolumesAgain ==
  /\ twoCalls.n < 2
  /\ LET r == getVolumes(localStorage, twoCalls.resp, now)
         after == IF r.write THEN Stored(r.ret) ELSE localStorage
     IN /\ localStorage' = after
        /\ twoCalls' =
             IF twoCalls.n = 0
             THEN [twoCalls EXCEPT !.n = 1, !.first = r.ret, !.stored = after]
             ELSE [twoCalls EXCEPT !.n = 2, !.second = r.ret]
  /\ UNCHANGED <<now, view, volumes, selectedVolume, isSubmitting, submit, gv,
                 lastList, localWrites, claimDates>>
  /\ UNCHANGED serverVars
  /\ UNCHANGED <<VIEW_ACCESS_CODE, csvExport, scripture, scriptureCache,
                 scriptureReqs>>

\* Time passes before the first of the two calls.
TickBeforeCalls == twoCalls.n = 0 /\ Tick

\* ------------------------------------ claimVolume's expectedCompletionDate

\* A Date by its local calendar fields: year, month (1..12), day of the
\* month and time of day.
Date(y, m, d, tod) == [y |-> y, m |-> m, d |-> d, tod |-> tod]

IsLeapYear(y) == (y % 4 = 0 /\ y % 100 # 0) \/ y % 400 = 0
DaysInMonth(y, m) ==
  IF m = 2 THEN (IF IsLeapYear(y) THEN 29 ELSE 28)
  ELSE IF m \in {4, 6, 9, 11} THEN 30 ELSE 31

\* Date.prototype.setDate(dayValue) for dayValue >= 1: the day counted from
\* the first of the date's month, carried into the following months and
\* years; the time of day is kept.
RECURSIVE setDate(_, _)
setDate(date, dayValue) ==
  IF dayValue <= DaysInMonth(date.y, date.m)
  THEN [date EXCEPT !.d = dayValue]
  ELSE setDate(IF date.m = 12 THEN [date EXCEPT !.y = date.y + 1, !.m = 1, !.d = 1]
               ELSE [date EXCEPT !.m = date.m + 1, !.d = 1],
               dayValue - DaysInMonth(date.y, date.m))

getDate(date) == date.d

\* setDate(plannedDays): the day of the month is left out of the sum.
ExpectedCompletionNoGetDate(claimedAt, plannedDays) ==
  setDate(claimedAt, IF plannedDays = 0 THEN DefaultPlannedDays ELSE plannedDays)

\* expectedCompletionDate = new Date(claimedAt);
\* expectedCompletionDate.setDate(claimedAt.getDate() + (request.plannedDays || 7))
ExpectedCompletion(claimedAt, plannedDays) ==
  setDate(claimedAt,
          getDate(claimedAt) + (IF plannedDays = 0 THEN DefaultPlannedDays
                                ELSE plannedDays))

\* claimVolume computes the two dates of a claim made at claimDates.claimedAt.
ComputeDates ==
  /\ claimDates.expectedCompletionDate = <<>>
  /\ claimDates' = [claimDates EXCEPT !.expectedCompletionDate =
                      <<ExpectedCompletion(claimDates.claimedAt[1],
                                           claimDates.plannedDays)>>]
  /\ UNCHANGED <<now, localStorage, view, volumes, selectedVolume, isSubmitting,
                 submit, gv, lastList, localWrites>>
  /\ UNCHANGED serverVars
  /\ UNCHANGED restVars

\* ------------------------------------------------------------ the system

\* What an earlier deployment (local claims only, the old catalog) left in
\* localStorage: its first volume claimed at time 0 for one day.
StaleList ==
  [OLD_VOLUMES EXCEPT ![1] =
     UpdatedVolume(OLD_VOLUMES[1],
                   [volumeId |-> OLD_VOLUMES[1].id, name |-> "wang",
                    phone |-> GoodPhone, days |-> 1], 0)]

NoList == [at |-> 0, data |-> NoItem, resp |-> NoReply, ret |-> <<>>,
           after |-> {}]

NoDates == [claimedAt |-> <<>>, plannedDays |-> 0, expectedCompletionDate |-> <<>>]

InitProgram ==
  /\ now = 0
  /\ configured \in BOOLEAN
  /\ store = {}
  /\ sheetCache = EmptyCache
  /\ posts = [r \in PostIds |-> IdlePost]
  /\ gets = [g \in GetIds |-> IdleGet]
  /\ notified = {}
  /\ viewOut = NoView
  /\ localStorage \in {NoItem, Corrupt, Stored(StaleList)}
  /\ view = "home"
  /\ volumes = <<>>
  /\ selectedVolume = <<>>
  /\ isSubmitting = FALSE
  /\ submit = IdleSubmit
  /\ gv = [c \in Callers |-> IdleGv]
  /\ lastList = NoList
  /\ localWrites = {}

\* The server's access code is the default, and nothing has been exported,
\* transformed, requested from the scripture endpoints or read twice.
InitRest ==
  /\ VIEW_ACCESS_CODE = AccessCodeOf(NoEnv)
  /\ csvExport = NoExport
  /\ scripture = NoScripture
  /\ scriptureCache = EmptyMap
  /\ scriptureReqs = [q \in ScriptureIds |-> IdleScripture]
  /\ twoCalls = NoCalls

Init == InitProgram /\ claimDates = NoDates /\ InitRest

\* The table's and the handlers' steps of the requests in flight.
ClaimSteps ==
  \/ \E r \in PostIds : StoreLookup(r)
  \/ \E r \in PostIds : StoreInsert(r)
  \/ \E r \in PostIds : PostFinish(r, "sent")

\* The same steps with every outcome of the notification.
ClaimStepsNotify ==
  \/ \E r \in PostIds : StoreLookup(r)
  \/ \E r \in PostIds : StoreInsert(r)
  \/ \E r \in PostIds, outcome \in NotifyOutcomes : PostFinish(r, outcome)
  \/ \E r \in PostIds : NotifySettle(r)

ListingSteps ==
  \/ \E g \in GetIds : StoreSelect(g)
  \/ \E g \in GetIds : GetFinish(g)

\* Another user claiming the catalog's first volume.
RivalBodies == {b \in ValidBodies : b.vid = 1001}

\* The browser, the server, and another user claiming a volume.
Next ==
  \/ Tick
  \/ \E b \in RivalBodies : OtherPost(b)
  \/ ClaimSteps
  \/ ListingSteps
  \/ Mount
  \/ LoadDone
  \/ \E i \in 1..(NumScrolls + OldScrolls) : handleClaimClick(i)
  \/ GoHome
  \/ \E days \in {0, 1} : handleSubmit("zhang", GoodPhone, days)
  \/ SubmitFailed
  \/ SubmitConflict
  \/ RefreshDone
  \/ SubmitOk
  \/ ClaimVolumeDone

Spec == Init /\ [][Next]_vars

\* Any POST /api/claim requests, in any interleaving.
NextClaims ==
  \/ Tick
  \/ \E b \in ValidBodies \cup InvalidBodies : OtherPost(b)
  \/ ClaimSteps

\* The server alone: the browser's storage plays no part.
InitServer == Init /\ localStorage = NoItem

SpecClaims == InitServer /\ [][NextClaims]_vars

\* Claim writes against listing reads.
NextListing ==
  \/ Tick
  \/ \E b \in RivalBodies : OtherPost(b)
  \/ ClaimSteps
  \/ \E fresh \in BOOLEAN : OtherGet(fresh)
  \/ ListingSteps

SpecListing == InitServer /\ [][NextListing]_vars

\* The browser and the admin views, evaluated as time passes.
NextStatus ==
  \/ Tick
  \/ ClaimSteps
  \/ ListingSteps
  \/ \E csv \in BOOLEAN : View(csv, CodeText(VIEW_ACCESS_CODE), FALSE)
  \/ Mount
  \/ LoadDone
  \/ \E i \in 1..(NumScrolls + OldScrolls) : handleClaimClick(i)
  \/ GoHome
  \/ \E days \in {0, 1} : handleSubmit("zhang", GoodPhone, days)
  \/ SubmitFailed
  \/ SubmitConflict
  \/ RefreshDone
  \/ SubmitOk
  \/ ClaimVolumeDone

SpecStatus == Init /\ [][NextStatus]_vars

\* The page load next to other claimants and another reader of the listing,
\* whose request fills the response cache the browser's fetch is then
\* answered from.
NextOverlay ==
  \/ Tick
  \/ \E b \in RivalBodies : OtherPost(b)
  \/ ClaimSteps
  \/ OtherGet(FALSE)
  \/ ListingSteps
  \/ Mount
  \/ LoadDone

SpecOverlay == Init /\ [][NextOverlay]_vars

\* One browser with nothing in its storage claiming for one day, a
\* configured server, and another reader of the listing.
InitBrowser == Init /\ localStorage = NoItem /\ configured

NextEndToEnd ==
  \/ Tick
  \/ OtherGet(FALSE)
  \/ ClaimSteps
  \/ ListingSteps
  \/ Mount
  \/ LoadDone
  \/ \E i \in 1..NumScrolls : handleClaimClick(i)
  \/ GoHome
  \/ handleSubmit("zhang", GoodPhone, 1)
  \/ SubmitFailed
  \/ SubmitConflict
  \/ RefreshDone
  \/ SubmitOk
  \/ ClaimVolumeDone

SpecEndToEnd == InitBrowser /\ [][NextEndToEnd]_vars

\* Claim requests with every outcome of the notification dispatch.
NextNotify ==
  \/ Tick
  \/ \E b \in ValidBodies : OtherPost(b)
  \/ ClaimStepsNotify

SpecNotify == InitServer /\ [][NextNotify]_vars

\* Every operation that reaches the table: claims that succeed, conflict or
\* fail, with a notification that is sent or fails, listing reads, the page
\* load, and the admin views, all within one cache window.
FrameBodies == RivalBodies \cup {b \in InvalidBodies : b.name = NoName}

NextFrame ==
  \/ \E b \in FrameBodies : OtherPost(b)
  \/ \E r \in PostIds : StoreLookup(r)
  \/ \E r \in PostIds : StoreInsert(r)
  \/ \E r \in PostIds, outcome \in {"fetch-error", "sent"} : PostFinish(r, outcome)
  \/ OtherGet(FALSE)
  \/ ListingSteps
  \/ \E csv \in BOOLEAN : View(csv, CodeText(VIEW_ACCESS_CODE), FALSE)
  \/ Mount
  \/ LoadDone

SpecFrame == InitBrowser /\ [][NextFrame]_vars

\* The page load against a store that may never answer the query: the
\* browser and the handler go on whenever they can, time passes, and nothing
\* obliges the store to answer.
NextWait ==
  \/ Tick
  \/ OtherGet(FALSE)
  \/ ListingSteps
  \/ Mount
  \/ LoadDone

SpecWait ==
  /\ Init /\ [][NextWait]_vars
  /\ WF_vars(Tick)
  /\ WF_vars(LoadDone)
  /\ \A g \in GetIds : WF_vars(GetFinish(g))

\* Claim times around the ends of months and years, in a common and in a
\* leap year, at two times of day, with every plannedDays up to the bound.
Years == {2023, 2024}
ClaimTimes ==
  {Date(y, m, d, tod) : y \in Years, m \in {1, 2, 12}, d \in {1, 28, 29, 30, 31},
                        tod \in {"00:00:00.000", "23:59:59.999"}}
ValidDate(date) ==
  /\ date.m \in 1..12
  /\ date.d \in 1..DaysInMonth(date.y, date.m)

InitDates ==
  /\ InitProgram /\ configured /\ localStorage = NoItem
  /\ \E t \in {c \in ClaimTimes : ValidDate(c)}, n \in 1..MaxPlannedDays :
       claimDates = [NoDates EXCEPT !.claimedAt = <<t>>, !.plannedDays = n]
  /\ InitRest

SpecDates == InitDates /\ [][ComputeDates]_vars


\* The admin views asked for with every sort of code, at a server whose
\* access code is the default or comes from the environment.
EnvCodes == {NoEnv, "", "s3cret"}
Codes ==
  {NoCode, CodeText(""), CodeText("admin123"), CodeText("s3cret"),
   CodeList(<<"admin123">>), CodeList(<<"s3cret", "s3cret">>)}

InitView ==
  /\ InitProgram /\ localStorage = NoItem /\ claimDates = NoDates
  /\ \E env \in EnvCodes : VIEW_ACCESS_CODE = AccessCodeOf(env)
  /\ csvExport = NoExport
  /\ scripture = NoScripture
  /\ scriptureCache = EmptyMap
  /\ scriptureReqs = [q \in ScriptureIds |-> IdleScripture]
  /\ twoCalls = NoCalls

NextView ==
  \/ Tick
  \/ \E b \in RivalBodies : OtherPost(b)
  \/ ClaimSteps
  \/ \E csv \in BOOLEAN, code \in Codes, fails \in BOOLEAN : View(csv, code, fails)

SpecView == InitView /\ [][NextView]_vars

\* Exports of up to MaxRows rows whose name is any text of up to MaxFieldLen
\* characters, special ones included, and whose remarks are absent or hold a
\* line break and a quote.
SpecialChars == {Quote, Comma, LF, CR}
FieldTexts == UNION {[1..n -> SpecialChars \cup {"a"}] : n \in 0..MaxFieldLen}
ExportRow(name, remarks) ==
  [volumeId |-> Num(1001), part |-> Num(1), scroll |-> Num(1),
   volumeNumber |-> Text(<<"part1-1">>), volumeTitle |-> Text(<<"prajna-j1">>),
   name |-> Text(name), phone |-> Text(<<"1", "3", "8">>),
   plannedDays |-> Num(DefaultPlannedDays), claimedAt |-> Text(<<"2024-01-01">>),
   expectedCompletionDate |-> Null, status |-> Text(<<"claimed">>),
   displayStatus |-> Text(<<"shown-as-claimed">>), readingUrl |-> Null,
   remarks |-> remarks]
ExportRows ==
  {ExportRow(name, remarks) :
     name \in FieldTexts, remarks \in {Null, Text(<<LF, Quote>>)}}
ExportLists == UNION {[1..n -> ExportRows] : n \in 0..MaxRows}

InitCsv ==
  /\ InitProgram /\ configured /\ localStorage = NoItem /\ claimDates = NoDates
  /\ VIEW_ACCESS_CODE = AccessCodeOf(NoEnv)
  /\ \E claims \in ExportLists : csvExport = [NoExport EXCEPT !.claims = claims]
  /\ scripture = NoScripture
  /\ scriptureCache = EmptyMap
  /\ scriptureReqs = [q \in ScriptureIds |-> IdleScripture]
  /\ twoCalls = NoCalls

SpecCsv == InitCsv /\ [][ExportCsv]_vars

\* Every document of up to MaxDocLen tokens of annotation markup.
HtmlAlphabet == {"<i>", "</i>", "<span>", "</span>", "<span class=dou>", "x"}
Documents == UNION {[1..n -> HtmlAlphabet] : n \in 0..MaxDocLen}

InitHtml ==
  /\ InitProgram /\ configured /\ localStorage = NoItem /\ claimDates = NoDates
  /\ VIEW_ACCESS_CODE = AccessCodeOf(NoEnv)
  /\ csvExport = NoExport
  /\ \E html \in Documents : scripture = [NoScripture EXCEPT !.html = html]
  /\ scriptureCache = EmptyMap
  /\ scriptureReqs = [q \in ScriptureIds |-> IdleScripture]
  /\ twoCalls = NoCalls

NextHtml ==
  \/ PdfRewrite
  \/ NormalizeHtml

SpecHtml == InitHtml /\ [][NextHtml]_vars

\* Documents put together from up to MaxTxtItems pieces: text, two-span
\* annotation pairs, paragraph and line-break tags, style and script blocks,
\* blanks and an entity; and the document <p>A<i>...</i>B</p>.
AnnotationPair ==
  <<"<i>", "<span>", "py", "</span>", "<span>", "hz", "</span>", "</i>">>
TxtItems ==
  {<<"A">>, <<"B">>, AnnotationPair, <<"<p>">>, <<"</p>">>, <<"<br>">>,
   <<"<style>", "css", "</style>">>, <<"<script>", "js", "</script>">>,
   <<" ">>, <<"&nbsp;">>}
RECURSIVE Concat(_)
Concat(items) == IF items = <<>> THEN <<>> ELSE Head(items) \o Concat(Tail(items))
ExampleItems == <<<<"<p>">>, <<"A">>, AnnotationPair, <<"B">>, <<"</p>">>>>
TxtItemLists ==
  UNION {[1..n -> TxtItems] : n \in 0..MaxTxtItems} \cup {ExampleItems}

InitTxt ==
  /\ InitProgram /\ configured /\ localStorage = NoItem /\ claimDates = NoDates
  /\ VIEW_ACCESS_CODE = AccessCodeOf(NoEnv)
  /\ csvExport = NoExport
  /\ \E items \in TxtItemLists :
       scripture = [NoScripture EXCEPT !.html = Concat(items)]
  /\ scriptureCache = EmptyMap
  /\ scriptureReqs = [q \in ScriptureIds |-> IdleScripture]
  /\ twoCalls = NoCalls

SpecTxt == InitTxt /\ [][ExtractText]_vars

\* Requests to the three scripture endpoints for two scrolls and for numbers
\* outside 1..200, as time passes.
ScrollParams == {0, 1, 2, LastScroll + 1}

NextScriptureSteps ==
  \/ Tick
  \/ \E endpoint \in Endpoints, scroll \in ScrollParams :
       ScriptureBegin(endpoint, scroll)
  \/ \E q \in ScriptureIds, outcome \in UpstreamOutcomes : UpstreamAnswer(q, outcome)
  \/ \E q \in ScriptureIds, ok \in BOOLEAN : PdfRender(q, ok)

SpecScripture == InitBrowser /\ [][NextScriptureSteps]_vars

\* Two getVolumes calls over one answer of the server: any of its shapes,
\* with any of the claims of two volumes, one of them for a single day.
TwiceRows ==
  {Row([vid |-> 1001, name |-> "li", phone |-> GoodPhone, plannedDays |-> 1,
        claimedAt |-> 0], 1),
   Row([vid |-> 1002, name |-> "zhao", phone |-> GoodPhone,
        plannedDays |-> DefaultPlannedDays, claimedAt |-> 0], 2)}
TwiceAnswers ==
  {Reply(200, shape, rows) : shape \in {"array", "object"}, rows \in SUBSET TwiceRows}
  \cup {NetworkError, Reply(500, "error", {})}

InitTwice ==
  /\ InitProgram /\ claimDates = NoDates
  /\ VIEW_ACCESS_CODE = AccessCodeOf(NoEnv)
  /\ csvExport = NoExport
  /\ scripture = NoScripture
  /\ scriptureCache = EmptyMap
  /\ scriptureReqs = [q \in ScriptureIds |-> IdleScripture]
  /\ \E resp \in TwiceAnswers : twoCalls = [NoCalls EXCEPT !.resp = resp]

NextTwice ==
  \/ TickBeforeCalls
  \/ GetVolumesAgain

SpecTwice == InitTwice /\ [][NextTwice]_vars


\* ================================================================ claims

Started(r) == posts[r].pc # "idle"
Valid(r) == Started(r) /\ ValidBody(posts[r].name, posts[r].phone)
\* The table failed the request's lookup or insert (not a uniqueness error).
StoreFailed(r) == posts[r].found = "error" \/ posts[r].ins = "error"
SameVolume(r1, r2) ==
  r1 # r2 /\ Started(r1) /\ Started(r2) /\ posts[r1].vid = posts[r2].vid
RowsOf(vid) == {row \in store : row.volumeId = Num(vid)}
PostedIds == {posts[r].vid : r \in {q \in PostIds : Started(q)}}

\* C1: after any interleaving of POST /api/claim requests, valid or not and
\* for any volume ids, the table holds at most one row per volumeId.
C1_AtMostOneClaimPerVolume ==
  \A row1 \in store, row2 \in store :
    row1.volumeId = row2.volumeId => row1 = row2

\* Two requests for one volume reached the insert; the table kept one row and
\* refused the other.
C1_Witness ==
  \E r1 \in PostIds, r2 \in PostIds :
    /\ SameVolume(r1, r2)
    /\ posts[r1].ins = "ok" /\ posts[r2].ins = "23505"
    /\ Cardinality(RowsOf(posts[r1].vid)) = 1

\* r2 arrived after r1 was answered.
Before(r1, r2) == Started(r2) /\ r1 \in posts[r2].seen
\* No third request for the volume overlapped r1.
Alone(r1) ==
  \A r3 \in PostIds : SameVolume(r1, r3) => Before(r1, r3) \/ Before(r3, r1)

\* C2: of two valid requests for one volume, run one after the other
\* against a configured store that answers and held no row for the volume,
\* the first is answered 200 and the second 409; and in no execution are
\* two requests for one volume both answered 200.
C2_SecondClaimConflicts ==
  \A r1 \in PostIds, r2 \in PostIds :
    SameVolume(r1, r2) /\ Valid(r1) /\ Valid(r2) =>
      /\ ~(posts[r1].code = 200 /\ posts[r2].code = 200)
      /\ ( /\ Before(r1, r2) /\ posts[r2].pc = "done"
           /\ configured /\ posts[r1].empty0 /\ Alone(r1)
           /\ ~StoreFailed(r1) /\ ~StoreFailed(r2)
           => posts[r1].code = 200 /\ posts[r2].code = 409 )

C2_Witness ==
  \E r1 \in PostIds, r2 \in PostIds :
    /\ SameVolume(r1, r2) /\ Valid(r1) /\ Valid(r2) /\ Before(r1, r2)
    /\ posts[r1].empty0 /\ posts[r1].code = 200 /\ posts[r2].code = 409
    /\ posts[r2].found = "some"

\* The valid requests for a volume that passed the existence check (it found
\* no row) and whose insert the table has been sent.
Racers(vid) ==
  {r \in PostIds : /\ Valid(r) /\ posts[r].vid = vid
                   /\ posts[r].found = "none"
                   /\ posts[r].pc \in {"inserting", "inserted", "done"}}

\* C3: when several requests for one volume all pass the existence check
\* before any of them inserts, and the table answers every insert, exactly
\* one is answered 200, every other one 409, none 500, and the table holds
\* one row for the volume.
C3_RaceYieldsOneWinner ==
  \A vid \in PostedIds :
    LET R == Racers(vid) IN
    ( /\ Cardinality(R) >= 2
      /\ \A r \in R : posts[r].pc = "done" /\ posts[r].ins # "error" )
    => /\ Cardinality({r \in R : posts[r].code = 200}) = 1
       /\ \A r \in R : posts[r].code \in {200, 409}
       /\ Cardinality(RowsOf(vid)) = 1

C3_Witness ==
  \E r1 \in PostIds, r2 \in PostIds :
    /\ SameVolume(r1, r2)
    /\ {r1, r2} \subseteq Racers(posts[r1].vid)
    /\ posts[r1].pc = "done" /\ posts[r2].pc = "done"
    /\ posts[r1].code = 200 /\ posts[r2].code = 409
    /\ posts[r2].ins = "23505"


Returned == lastList # NoList
HasDeadline(x) == x.expectedCompletionDate # None

\* C4: every volume getVolumes returns has one of the three statuses, and
\* it is completed exactly when it has an expectedCompletionDate and the
\* evaluation time is at or past it; the admin view and the CSV export
\* show a row as completed under the same condition.
C4_StatusDerivation ==
  /\ \A i \in DOMAIN lastList.ret :
       LET v == lastList.ret[i] IN
       /\ v.status \in VolumeStatus
       /\ v.status = COMPLETED <=>
            (HasDeadline(v) /\ lastList.at >= v.expectedCompletionDate)
  /\ \A row \in viewOut.rows :
       row.displayStatus = COMPLETED <=>
         (HasDeadline(row.claim) /\ viewOut.at >= row.claim.expectedCompletionDate)

\* A list with a completed and an unclaimed volume was returned, and a view
\* showed a completed row.
C4_Witness ==
  /\ \E i \in DOMAIN lastList.ret : lastList.ret[i].status = COMPLETED
  /\ \E i \in DOMAIN lastList.ret : lastList.ret[i].status = UNCLAIMED
  /\ \E row \in viewOut.rows : row.displayStatus = COMPLETED

\* C5: once a POST /api/claim was answered 200 for a volume, every
\* GET /api/claims that starts afterwards and meets no store failure is
\* answered with a listing that contains a row for that volume.
C5_ReadsSeeAnsweredClaims ==
  \A g \in GetIds :
    (gets[g].pc = "done" /\ configured /\ ~gets[g].failed) =>
      \A vid \in gets[g].mustSee :
        \E row \in gets[g].resp.data : row.volumeId = Num(vid)

\* The request met one of the three failures: no client, a failed lookup, an
\* insert that failed for another reason than uniqueness.
HardFailure(r) == Valid(r) /\ (~configured \/ StoreFailed(r))
Answered(r) == posts[r].pc = "done"

\* C6: a (valid) request that meets no configured store, a failed lookup or
\* an insert failing for a reason other than uniqueness is answered 500 and
\* never 200; it stores no row, dispatches no notification, is followed by
\* no local claim write of the browser, and the step that answers it leaves
\* the table, the response cache and localStorage unchanged.
C6_HardFailureHasNoEffect ==
  [][ \A r \in PostIds :
        HardFailure(r)' =>
          /\ posts'[r].code # 200
          /\ Answered(r)' => posts'[r].code = 500
          /\ posts'[r].ins # "ok"
          /\ r \notin notified'
          /\ r \notin localWrites'
          /\ (~Answered(r) /\ Answered(r)') =>
               /\ store' = store
               /\ sheetCache' = sheetCache
               /\ notified' = notified
               /\ localStorage' = localStorage ]_vars

\* The browser's own request failed at the store, was answered 500, and
\* handleSubmit has run its catch and finally blocks.
C6_Witness ==
  \E r \in PostIds :
    /\ posts[r].owner = "client" /\ HardFailure(r) /\ posts[r].ins = "error"
    /\ Answered(r) /\ posts[r].code = 500
    /\ submit.pc = "idle" /\ ~isSubmitting /\ r \notin localWrites

Range(f) == {f[i] : i \in DOMAIN f}

\* The catalog with the cached entries that are not unclaimed overlaid:
\* claimer and timing fields kept, status recomputed at time t.
CatalogWithCached(data, t) ==
  IF data.kind # "list" THEN INITIAL_VOLUMES
  ELSE [i \in DOMAIN INITIAL_VOLUMES |->
          LET m == {c \in Range(data.list) :
                      /\ c.status # UNCLAIMED
                      /\ String(c.id) = String(INITIAL_VOLUMES[i].id)}
          IN IF m = {} THEN INITIAL_VOLUMES[i]
             ELSE LET c == CHOOSE x \in m : TRUE IN
                  [INITIAL_VOLUMES[i] EXCEPT
                     !.claimerName = c.claimerName,
                     !.claimerPhone = c.claimerPhone,
                     !.plannedDays = c.plannedDays,
                     !.claimedAt = c.claimedAt,
                     !.expectedCompletionDate = c.expectedCompletionDate,
                     !.status = IF HasDeadline(c) /\ t >= c.expectedCompletionDate
                                THEN COMPLETED ELSE CLAIMED]]

\* C7: when the fetch of the remote claims fails, getVolumes returns the
\* catalog with every cached entry that is not unclaimed overlaid, and the
\* bare catalog when the cache is absent or unreadable.
C7_FallbackOverlaysCache ==
  (Returned /\ lastList.resp.status # 200) =>
    lastList.ret = CatalogWithCached(lastList.data, lastList.at)

\* C8: whatever the local cache and the remote answer, the returned list has
\* one entry per catalog volume, in catalog order, with the catalog's id,
\* title, label and readingUrl.
C8_ListFollowsCatalog ==
  Returned =>
    /\ Len(lastList.ret) = Len(INITIAL_VOLUMES)
    /\ \A i \in DOMAIN lastList.ret : i \in DOMAIN INITIAL_VOLUMES =>
         /\ lastList.ret[i].id = INITIAL_VOLUMES[i].id
         /\ lastList.ret[i].volumeTitle = INITIAL_VOLUMES[i].volumeTitle
         /\ lastList.ret[i].volumeNumber = INITIAL_VOLUMES[i].volumeNumber
         /\ lastList.ret[i].readingUrl = INITIAL_VOLUMES[i].readingUrl

\* C9: whenever the remote fetch succeeds, a volume is returned as claimed
\* or completed only if the answer holds a claim for its id. Stated for the
\* answers the overlay reads (a JSON array), so that a violation owes
\* nothing to the shape of the answer.
C9_RemoteIsAuthoritative ==
  (Returned /\ Overlayable(lastList.resp)) =>
    \A i \in DOMAIN lastList.ret :
      lastList.ret[i].status # UNCLAIMED =>
        FindClaim(lastList.resp.data, lastList.ret[i]) # {}

\* C10: for the wrapped answer {data: [...]} and for the bare array alike,
\* every claim of the answer is overlaid on the volume with the matching
\* id, which is then not returned as unclaimed.
C10_BothShapesOverlay ==
  (Returned /\ lastList.resp.status = 200) =>
    \A c \in lastList.resp.data : \A i \in DOMAIN lastList.ret :
      String(c.volumeId) = String(lastList.ret[i].id) =>
        lastList.ret[i].status # UNCLAIMED

\* The returned list shows the volume of the browser's request r as claimed
\* by the submitted name, and as completed from its deadline on.
ShowsClaim(list, r) ==
  \E i \in DOMAIN list.ret :
    LET v == list.ret[i] IN
    /\ String(v.id) = String(Num(posts[r].vid))
    /\ v.status # UNCLAIMED
    /\ v.claimerName = posts[r].name
    /\ v.status = COMPLETED <=>
         (HasDeadline(v) /\ list.at >= v.expectedCompletionDate)

\* C11: after the browser's claim was answered 200, handleSubmit enters the
\* success view, the claimVolume call it made ends with the local write
\* (it is not rejected as already claimed), and every getVolumes that
\* starts after that call returns the volume as claimed by the submitted
\* name, and as completed once the deadline has passed.
C11_ClaimEndToEnd ==
  [][ /\ (submit.pc = "posting" /\ SubmitCode = 200 /\ submit'.pc # "posting")
           => view' = "success"
      /\ \A r \in ClaimEnded' : r \in localWrites'
      /\ \A r \in lastList'.after : ShowsClaim(lastList', r) ]_vars

\* The number of days from the first of January of the first year of Years
\* to the date, counted month by month.
RECURSIVE DaysBeforeYear(_)
DaysBeforeYear(y) ==
  IF \A z \in Years : y <= z THEN 0
  ELSE DaysBeforeYear(y - 1) + (IF IsLeapYear(y - 1) THEN 366 ELSE 365)
RECURSIVE DaysBeforeMonth(_, _)
DaysBeforeMonth(y, m) ==
  IF m = 1 THEN 0 ELSE DaysBeforeMonth(y, m - 1) + DaysInMonth(y, m - 1)
DayNumber(date) == DaysBeforeYear(date.y) + DaysBeforeMonth(date.y, date.m) + date.d

DatesComputed == claimDates.expectedCompletionDate # <<>>

\* C12: the expectedCompletionDate claimVolume records is a date of the
\* calendar that lies exactly plannedDays days after claimedAt, at the same
\* time of day, also across the end of a month or of a year.
C12_CompletionIsPlannedDaysLater ==
  DatesComputed =>
    LET from == claimDates.claimedAt[1]
        to == claimDates.expectedCompletionDate[1] IN
    /\ ValidDate(to)
    /\ DayNumber(to) = DayNumber(from) + claimDates.plannedDays
    /\ to.tod = from.tod

\* A claim on 31 December 2024 whose completion date lies in February 2025.
C12_Witness ==
  /\ DatesComputed
  /\ claimDates.claimedAt[1].y = 2024 /\ claimDates.claimedAt[1].m = 12
  /\ claimDates.claimedAt[1].d = 31
  /\ claimDates.expectedCompletionDate[1].y = 2025
  /\ claimDates.expectedCompletionDate[1].m = 2

\* C13: every call of getVolumes returns: a fetch that is never answered is
\* given up after a bounded wait and the fallback list is returned.
C13_GetVolumesTerminates ==
  \A c \in Callers : (gv[c].pc = "fetching") ~> (gv[c].pc # "fetching")

\* C14: a GET /api/claims with fresh=1 at a server with a store always sends
\* its query, whatever the cache holds; the query reads the table as it is,
\* and when it succeeds the request is answered with the rows read and the
\* cache entry is replaced with them.
C14_FreshBypassesCache ==
  [][ \A g \in GetIds :
        /\ (gets[g].pc = "idle" /\ gets'[g].pc # "idle" /\ gets'[g].fresh /\ HasClient)
             => gets'[g].pc = "query"
        /\ (gets[g].fresh /\ gets[g].pc = "query" /\ gets'[g].pc = "selected"
            /\ ~gets'[g].failed)
             => gets'[g].snap = store
        /\ (gets[g].fresh /\ gets[g].pc = "selected" /\ gets'[g].pc = "done"
            /\ ~gets[g].failed)
             => /\ gets'[g].resp = Reply(200, "object", gets[g].snap)
                /\ sheetCache'.held
                /\ sheetCache'.data = gets[g].snap ]_vars

\* Within one cache window a first request was answered with an empty
\* listing; a later one with fresh=1 was answered with the claim made since,
\* which the cache now holds.
C14_Witness ==
  /\ now = 0
  /\ gets[1].pc = "done" /\ ~gets[1].fresh /\ gets[1].resp.data = {}
  /\ gets[1].resp.status = 200
  /\ gets[2].pc = "done" /\ gets[2].fresh /\ gets[2].mustSee # {}
  /\ gets[2].resp = Reply(200, "object", store) /\ store # {}
  /\ sheetCache.held /\ sheetCache.data = store

\* The body has an empty name, no phone, or a phone that is not a string of
\* 8 to 11 digits.
BadBody(r) ==
  \/ posts[r].name = ""
  \/ posts[r].phone.len = 0
  \/ ~posts[r].phone.digits
  \/ posts[r].phone.len \notin 8..11

\* C15: a POST /api/claim with an empty name, a missing phone or a phone
\* that is not 8 to 11 digits is answered 400 by the step that receives it:
\* no lookup and no insert is made for it, and the table, the response cache
\* and the notifications sent stay as they were.
C15_InvalidBodyRejected ==
  [][ \A r \in PostIds :
        (Started(r) /\ BadBody(r))' =>
          /\ posts'[r].pc = "done" /\ posts'[r].code = 400
          /\ posts'[r].found = "-" /\ posts'[r].ins = "-"
          /\ posts'[r].notify = "-" /\ r \notin notified'
          /\ \A row \in store' : row.id # r
          /\ ~Started(r) =>
               /\ store' = store
               /\ sheetCache' = sheetCache
               /\ notified' = notified ]_vars

\* A 7-digit phone was refused after an earlier claim had been stored, and
\* that claim is still the table's only row.
C15_Witness ==
  \E r \in PostIds :
    /\ posts[r].phone = Phone(7, TRUE) /\ posts[r].name # ""
    /\ posts[r].code = 400
    /\ \E q \in PostIds : q < r /\ posts[q].code = 200
    /\ Cardinality(store) = 1

\* C16: a claim for a volumeId that is no volume of the catalog is answered
\* with a 400-class error and leaves no record for that id in the table.
C16_UnknownVolumeRejected ==
  \A r \in PostIds :
    (Started(r) /\ posts[r].vid \notin CatalogIds) =>
      /\ Answered(r) => posts[r].code \in 400..499
      /\ \A row \in store : row.volumeId # Num(posts[r].vid)

\* The table holds the claim of request r as it was inserted.
StoredClaim(r) ==
  \E row \in store :
    /\ row.id = r /\ row.volumeId = Num(posts[r].vid)
    /\ row.name = posts[r].name /\ row.phone = posts[r].phone
    /\ row.plannedDays = Num(posts[r].plannedDays)

\* C17: a request whose insert succeeded is answered 200 by the step that
\* dispatches the notification, whatever becomes of the dispatch (no
\* webhook, a rejected fetch, an errcode, a call still pending, a sent
\* message); neither that step nor the later end of a pending call changes
\* the stored record or the answer.
C17_NotificationNeverAffectsClaim ==
  [][ \A r \in PostIds :
        /\ (posts[r].pc = "inserted" /\ posts[r].ins = "ok"
            /\ posts'[r].pc # "inserted")
             => /\ posts'[r].pc = "done" /\ posts'[r].code = 200
                /\ posts'[r].notify \in NotifyOutcomes
                /\ store' = store /\ StoredClaim(r)'
        /\ (posts[r].notify # "-" /\ posts'[r].notify # posts[r].notify)
             => /\ posts'[r].pc = "done" /\ posts'[r].code = 200
                /\ store' = store /\ StoredClaim(r)' ]_vars

\* One claim was answered 200 while its notification call is still pending,
\* another although the notification's fetch was rejected.
C17_Witness ==
  \E r, q \in PostIds :
    /\ posts[r].code = 200 /\ posts[r].notify = "pending" /\ StoredClaim(r)
    /\ posts[q].code = 200 /\ posts[q].notify = "fetch-error" /\ StoredClaim(q)

\* C18: when the browser's POST /api/claim is answered 409, handleSubmit
\* makes no local claim write, reloads the listing and shows the home view,
\* and, the reload's fetch having been answered 200, the reloaded listing
\* shows the contested volume as not unclaimed.
C18_ConflictReloadsListing ==
  [][ (submit.pc = "refreshing" /\ submit'.pc # "refreshing") =>
        /\ view' = "home"
        /\ localWrites' = localWrites /\ submit.post \notin localWrites'
        /\ volumes' = lastList'.ret
        /\ lastList'.resp.status = 200 =>
             \E i \in DOMAIN volumes' :
               /\ String(volumes'[i].id) = String(Num(posts[submit.post].vid))
               /\ volumes'[i].status # UNCLAIMED ]_vars

\* C19: when the query of GET /api/claims fails, the request is answered
\* with the listing the response cache holds, whatever its age, and with
\* 500 only when the cache holds none; the cache is left as it was.
C19_FailedQueryServesCache ==
  [][ \A g \in GetIds :
        (gets[g].pc = "selected" /\ gets[g].failed /\ gets'[g].pc = "done") =>
          /\ sheetCache' = sheetCache
          /\ sheetCache.held =>
               gets'[g].resp = Reply(200, "array", sheetCache.data)
          /\ ~sheetCache.held => gets'[g].resp.status = 500 ]_vars

\* Past the cache window, a request whose query failed was answered with
\* the listing fetched by the first request, which the cache still holds.
C19_Witness ==
  /\ now >= CACHE_DURATION
  /\ sheetCache.held /\ sheetCache.timestamp = 0 /\ sheetCache.data # {}
  /\ gets[1].pc = "done" /\ gets[1].resp = Reply(200, "object", sheetCache.data)
  /\ gets[2].pc = "done" /\ gets[2].failed
  /\ gets[2].resp = Reply(200, "array", sheetCache.data)

\* C20: the rows of the table change only by the insert of a POST
\* /api/claim that is answered 200, which adds exactly one row; no step
\* removes or alters a row, and a listing read, a page load, an admin view
\* and a POST answered with an error leave the table as it was.
C20_StoreChangesOnlyByClaim ==
  [][ /\ store \subseteq store'
      /\ store' # store =>
           \E r \in PostIds :
             /\ posts[r].pc = "inserting" /\ posts'[r].ins = "ok"
             /\ Cardinality(store') = Cardinality(store) + 1
             /\ \A row \in store' \ store : row.id = r
      /\ (gets' # gets \/ viewOut' # viewOut \/ gv' # gv \/ lastList' # lastList)
           => store' = store
      /\ \A r \in PostIds :
           (Answered(r)' /\ posts'[r].code # 200) =>
             \A row \in store' : row.id # r ]_vars

\* One claim is stored; a second one conflicted; the listing was read, the
\* page was loaded and an admin view rendered the row.
C20_Witness ==
  /\ Cardinality(store) = 1
  /\ \E r, q \in PostIds : posts[r].code = 200 /\ posts[q].code = 409
  /\ \E g \in GetIds : gets[g].pc = "done" /\ gets[g].resp.data = store
  /\ viewOut.status = 200 /\ viewOut.rows # {}
  /\ Returned

\* C21: a request for /view or /view.csv whose code is not the server's
\* access code (a missing code, another text, the code repeated as a list)
\* is answered 401, reads no row of the table and shows none; a request with
\* the access code is answered 200, and only such a request shows rows.
C21_ViewRequiresAccessCode ==
  viewOut.status # 0 =>
    /\ viewOut.code # CodeText(VIEW_ACCESS_CODE) =>
         viewOut.status = 401 /\ ~viewOut.read /\ viewOut.rows = {}
    /\ viewOut.code = CodeText(VIEW_ACCESS_CODE) => viewOut.status = 200
    /\ viewOut.rows # {} => viewOut.code = CodeText(VIEW_ACCESS_CODE)

\* With a claim in the table, a request that repeats the access code as a
\* list was refused.
C21_Witness ==
  /\ store # {}
  /\ viewOut.code = CodeList(<<VIEW_ACCESS_CODE>>)
  /\ viewOut.status = 401 /\ viewOut.rows = {}

\* A CSV reader: a comma or a line break (LF, CR or CR LF) outside quotes
\* ends a field, a line break also the row; a character is outside quotes
\* when an even number of quotes precedes it; a field wrapped in quotes
\* stands for its inside with every pair of quotes read as one.
QuotesBefore(text, j) == Cardinality({k \in 1..(j - 1) : text[k] = Quote})
IsSeparator(text, j) ==
  text[j] \in {Comma, LF, CR} /\ QuotesBefore(text, j) % 2 = 0
NextSeparator(text, i) ==
  LET S == {j \in i..Len(text) : IsSeparator(text, j)} IN
  IF S = {} THEN Len(text) + 1 ELSE CHOOSE j \in S : \A k \in S : j <= k
RECURSIVE Undouble(_)
Undouble(raw) ==
  IF raw = <<>> THEN <<>>
  ELSE IF Len(raw) >= 2 /\ raw[1] = Quote /\ raw[2] = Quote
  THEN <<Quote>> \o Undouble(SubSeq(raw, 3, Len(raw)))
  ELSE <<Head(raw)>> \o Undouble(Tail(raw))
Unquote(raw) ==
  IF Len(raw) >= 2 /\ raw[1] = Quote /\ raw[Len(raw)] = Quote
  THEN Undouble(SubSeq(raw, 2, Len(raw) - 1))
  ELSE raw
RECURSIVE ParseFrom(_, _, _, _)
ParseFrom(text, i, row, rows) ==
  LET j == NextSeparator(text, i)
      field == Unquote(SubSeq(text, i, j - 1)) IN
  IF j > Len(text) THEN Append(rows, Append(row, field))
  ELSE IF text[j] = Comma THEN ParseFrom(text, j + 1, Append(row, field), rows)
  ELSE ParseFrom(text, IF text[j] = CR /\ j < Len(text) /\ text[j + 1] = LF
                       THEN j + 2 ELSE j + 1,
                 <<>>, Append(rows, Append(row, field)))
ParseCsv(text) == ParseFrom(text, 1, <<>>, <<>>)

\* The text of a row's column as the export is to show it: nothing for an
\* absent value, the status column showing the displayed status.
FieldText(c, i) ==
  LET value == IF headers[i] = "status" THEN c.displayStatus ELSE c[headers[i]] IN
  IF value.kind = "null" THEN <<>> ELSE CsvString(value)

\* C22: the export of N claims reads back, through a CSV reader, as the row
\* of column names followed by exactly N rows, each with one field per
\* column, and every field reads back as the text of the claim's value,
\* commas, quotes and line breaks included. (The values are texts, absent
\* values and the non-zero numbers the claim handler stores.)
C22_CsvRoundTrip ==
  csvExport.sent =>
    LET parsed == ParseCsv(csvExport.text)
        claims == csvExport.claims IN
    /\ Len(parsed) = 1 + Len(claims)
    /\ parsed[1] = [i \in 1..Len(headers) |-> <<headers[i]>>]
    /\ \A k \in 1..Len(claims) :
         /\ Len(parsed[k + 1]) = Len(headers)
         /\ \A i \in 1..Len(headers) : parsed[k + 1][i] = FieldText(claims[k], i)

\* Two rows were exported, one named with a quote and a line break, the
\* other with a carriage return and a comma, and the remarks of one hold a
\* line break and a quote.
C22_Witness ==
  /\ csvExport.sent /\ Len(csvExport.claims) = 2
  /\ csvExport.claims[1].name = Text(<<Quote, LF>>)
  /\ csvExport.claims[2].name = Text(<<CR, Comma>>)
  /\ csvExport.claims[2].remarks # Null

\* C23: the rewrite of the PDF path (punctuation repair, then pairing)
\* applied to its own output returns it unchanged, and so does the
\* punctuation repair applied to a document it has repaired.
C23_RewriteIsIdempotent ==
  (scripture.op \in {"pdf", "repair"} /\ scripture.passes = 2) =>
    scripture.html = scripture.prev

IsCharacter(tok) == tok \in {"A", "B", "hz"}
NotBlank(tok) == tok \notin {" ", "\n"}

WrittenVolume(list, volumeId) == list[FindIndex(list, volumeId)]

\* C25: a claim sent without plannedDays is recorded with plannedDays = 7
\* and a completion date 7 days after claimedAt, in the row POST /api/claim
\* stores and in the volume claimVolume writes to localStorage.
C25_OmittedPlannedDaysIsSeven ==
  [][ /\ \A r \in PostIds :
           (posts[r].pc = "inserting" /\ posts'[r].ins = "ok" /\ posts[r].omitted) =>
             \A row \in store' \ store :
               /\ row.plannedDays = Num(DefaultPlannedDays)
               /\ row.expectedCompletionDate =
                    row.claimedAt + DefaultPlannedDays * TicksPerDay
      /\ (localWrites' # localWrites /\ gv["claim"].req.days = 0) =>
           LET v == WrittenVolume(localStorage'.list, gv["claim"].req.volumeId) IN
           /\ v.plannedDays = DefaultPlannedDays
           /\ v.expectedCompletionDate =
                v.claimedAt + DefaultPlannedDays * TicksPerDay ]_vars

\* C26: at a server with a store, a GET /api/claims without fresh=1 is
\* answered from the response cache exactly when the cache holds a listing
\* whose timestamp is less than CACHE_DURATION old, and otherwise sends its
\* query; the cache is written by a listing request only when its query
\* succeeded, with the rows read and the request's time, and a held listing
\* always comes from such a query.
C26_CacheServesWithinWindow ==
  [][ /\ \A g \in GetIds :
           (gets[g].pc = "idle" /\ gets'[g].pc # "idle" /\ ~gets'[g].fresh /\ HasClient) =>
             IF sheetCache.held /\ now - sheetCache.timestamp < CACHE_DURATION
             THEN /\ gets'[g].pc = "done"
                  /\ gets'[g].resp = Reply(200, "array", sheetCache.data)
                  /\ sheetCache' = sheetCache
             ELSE /\ gets'[g].pc = "query"
                  /\ sheetCache' = sheetCache
      /\ \A g \in GetIds :
           (gets[g].pc = "selected" /\ gets'[g].pc = "done") =>
             IF gets[g].failed
             THEN sheetCache' = sheetCache
             ELSE sheetCache' = [data |-> gets[g].snap, held |-> TRUE,
                                 timestamp |-> gets[g].t0]
      /\ (sheetCache' # sheetCache /\ sheetCache'.held) =>
           \E g \in GetIds : /\ gets[g].pc = "selected" /\ ~gets[g].failed
                             /\ gets'[g].pc = "done"
                             /\ gets[g].t0 <= now ]_vars

\* Inside the window a second request was answered, without a query, with
\* the listing the first one fetched.
C26_Witness ==
  /\ gets[1].pc = "done" /\ gets[1].resp.shape = "object" /\ gets[1].resp.data # {}
  /\ gets[2].pc = "done" /\ ~gets[2].fresh /\ ~gets[2].failed
  /\ gets[2].resp = Reply(200, "array", gets[1].resp.data)
  /\ sheetCache.held /\ now - sheetCache.timestamp < CACHE_DURATION

\* The entry of a scroll is less than SCRIPTURE_CACHE_DURATION old.
StoredWithinWindow(scroll) ==
  LET e == CacheGet(scriptureCache, scroll) IN
  e.held /\ now - e.timestamp < SCRIPTURE_CACHE_DURATION

\* C27: the upstream-text cache is keyed by scroll and shared by the HTML,
\* TXT and PDF endpoints. A request for a valid scroll goes on without an
\* upstream fetch, with the cached text, exactly when the scroll's entry
\* was stored less than SCRIPTURE_CACHE_DURATION earlier; an entry is
\* stored only when a fetch succeeded, for the scroll fetched and with the
\* time of storing; a failed fetch is answered 500 and leaves the cache as
\* it was.
C27_ScriptureCacheSharedByScroll ==
  [][ /\ \A q \in ScriptureIds :
           (scriptureReqs[q].pc = "idle" /\ scriptureReqs'[q].pc # "idle"
            /\ scriptureReqs'[q].scroll >= 1
            /\ scriptureReqs'[q].scroll <= LastScroll) =>
             /\ scriptureCache' = scriptureCache
             /\ IF StoredWithinWindow(scriptureReqs'[q].scroll)
                THEN /\ ~scriptureReqs'[q].fetched
                     /\ scriptureReqs'[q].pc \in {"done", "rendering"}
                     /\ scriptureReqs'[q].html =
                          CacheGet(scriptureCache, scriptureReqs'[q].scroll).html
                ELSE /\ scriptureReqs'[q].fetched
                     /\ scriptureReqs'[q].pc = "fetching"
      /\ \A q \in ScriptureIds :
           (scriptureReqs[q].pc = "fetching" /\ scriptureReqs'[q].pc # "fetching") =>
             IF scriptureReqs'[q].upstream = "ok"
             THEN /\ CacheGet(scriptureCache', scriptureReqs[q].scroll) =
                       [held |-> TRUE, html |-> scriptureReqs'[q].html,
                        timestamp |-> now]
                  /\ \A k \in DOMAIN scriptureCache' \ {scriptureReqs[q].scroll} :
                       CacheGet(scriptureCache', k) = CacheGet(scriptureCache, k)
             ELSE /\ scriptureCache' = scriptureCache
                  /\ scriptureReqs'[q].pc = "done"
                  /\ scriptureReqs'[q].code = 500
      /\ scriptureCache' # scriptureCache =>
           \E q \in ScriptureIds : /\ scriptureReqs[q].pc = "fetching"
                                   /\ scriptureReqs'[q].upstream = "ok" ]_vars

\* The HTML endpoint fetched scroll 1; the TXT and PDF endpoints then had
\* the same text from the cache without a fetch, while a request for
\* another scroll would not be served from it.
C27_Witness ==
  /\ scriptureReqs[1].endpoint = "html" /\ scriptureReqs[1].scroll = 1
  /\ scriptureReqs[1].fetched /\ scriptureReqs[1].code = 200
  /\ scriptureReqs[2].endpoint = "txt" /\ scriptureReqs[2].scroll = 1
  /\ ~scriptureReqs[2].fetched /\ scriptureReqs[2].code = 200
  /\ scriptureReqs[2].html = scriptureReqs[1].html
  /\ scriptureReqs[3].endpoint = "pdf" /\ scriptureReqs[3].scroll = 1
  /\ ~scriptureReqs[3].fetched /\ scriptureReqs[3].pc = "rendering"
  /\ scriptureReqs[3].html = scriptureReqs[1].html
  /\ StoredWithinWindow(1) /\ ~StoredWithinWindow(2)

\* The list a getVolumes call works on before the statuses are recomputed:
\* what it read from localStorage with the claims of the answer laid over.
Reconciled(data, resp) ==
  LET base == IF data = NoItem THEN INITIAL_VOLUMES ELSE data.list IN
  IF Overlayable(resp) THEN OverlayClaims(base, resp.data) ELSE base

\* A claimed volume of the call's list has reached its deadline.
DeadlinePassed(c) ==
  /\ gv[c].data # Corrupt
  /\ LET vols == Reconciled(gv[c].data, GvResp(c)) IN
     \E i \in DOMAIN vols : /\ vols[i].status = CLAIMED
                            /\ vols[i].expectedCompletionDate # None
                            /\ now >= vols[i].expectedCompletionDate

\* C28: a getVolumes call of the page load or of the reload after a 409
\* writes localStorage only when a claimed volume's deadline has passed in
\* this call, and then writes the whole list it returns; every other call,
\* also one that laid fresh claims over the local list, leaves localStorage
\* as it is.
C28_WritesOnlyOnPassedDeadline ==
  [][ \A c \in {"load", "refresh"} :
        (gv[c].pc = "fetching" /\ gv'[c].pc # "fetching") =>
          IF DeadlinePassed(c)
          THEN /\ localStorage' = Stored(lastList'.ret)
               /\ volumes' = lastList'.ret
               /\ \E i \in DOMAIN volumes' : volumes'[i].status = COMPLETED
          ELSE localStorage' = localStorage ]_vars

\* A call laid claims of the server over the local list, completed one of
\* them, and wrote the list it returned, which differs from what it read.
C28_Witness ==
  /\ Overlayable(lastList.resp) /\ lastList.resp.data # {}
  /\ lastList.data # Corrupt
  /\ \E i \in DOMAIN lastList.ret :
       /\ lastList.ret[i].status = COMPLETED
       /\ Reconciled(lastList.data, lastList.resp)[i].status = CLAIMED
       /\ FindClaim(lastList.resp.data, lastList.ret[i]) # {}
  /\ localStorage = Stored(lastList.ret)
  /\ localStorage # lastList.data

C30_SuccessOnlyAfterLocalWrite ==
  [][ /\ (submit.pc # "idle" /\ submit'.pc = "idle") => ~isSubmitting'
      /\ isSubmitting' => submit'.pc # "idle"
      /\ (view # "success" /\ view' = "success") =>
           /\ submit.post # 0
           /\ posts[submit.post].code = 200
           /\ submit.post \in localWrites ]_vars

====
